---- MODULE Spec2Model ----
(***************************************************************************)
(* Webhook ingestion, event processing and token brokering of the          *)
(* AI-Workflow-Automation services (api + auth), as state machines.        *)
(*                                                                         *)
(*   SpecWorker  - N pollers running process_pending_events, plus the      *)
(*                 manual process_single_event, over the event table       *)
(*   SpecSeq     - the same with a single poller                           *)
(*   SpecIngest  - concurrent invocations of the webhook handler           *)
(*                 receive_ms365_webhook over the event table              *)
(*   SpecToken   - concurrent get_credential_token calls against the       *)
(*                 token-vending endpoint of the Auth service              *)
(*   SpecAuth    - the OAuth flow of a credential (authorize, callback,    *)
(*                 update, delete) next to a get_credential_token call     *)
(*   SpecSubs    - concurrent create and delete requests for webhook       *)
(*                 subscriptions, against the provider and the table       *)
(*   SpecSelect  - two pollers selecting batches from three queued events  *)
(*   SpecProcess - the pollers with process_ms365_event taken step by      *)
(*                 step: token request, Graph call, the UPDATEs            *)
(*   SpecRefresh - two calls refreshing a token about to expire, the       *)
(*                 provider call and the UPDATE as separate steps          *)
(*   SpecCache   - one caller while the credential is authorized, updated  *)
(*                 and deleted and the token cache is cleared              *)
(*   SpecCreate, SpecUpdate - create_credential and update_credential      *)
(*                 over the credential's row                               *)
(*   SpecSkip    - one poller over events of supported and unsupported     *)
(*                 providers                                               *)
(*   SpecOtp     - store_otp and two concurrent validate_otp calls over    *)
(*                 the OTP challenges of one user                          *)
(*   SpecSeqFair, SpecWorkerFair - SpecSeq and SpecWorker with weakly fair *)
(*                 poll loops                                              *)
(***************************************************************************)
EXTENDS Naturals, Integers, Sequences, FiniteSets, TLC

(* ------------------------------------------------------------------ *)
(* Bounds of the model                                                  *)
(* ------------------------------------------------------------------ *)
NumPollers == 2
NumEvents == 2
BatchSize == 2
NumHandlers == 2
MaxNotifications == 2
NumCallers == 2
MaxIssued == 2
MaxTime == 3
MaxStates == 2
NumRequesters == 2
NumQueued == 3
NumValidators == 2
NumChallenges == 2
\* OTP_MAX_ATTEMPTS and OTP_EXPIRY_MINUTES of the environment (defaults 8
\* and 5), set small
OTP_MAX_ATTEMPTS == 2
OTP_EXPIRY_MINUTES == 2

(* ------------------------------------------------------------------ *)
(* Program constants                                                    *)
(* ------------------------------------------------------------------ *)
MAX_RETRY_ATTEMPTS == 3
SAFETY_MARGIN == 5           \* 300 seconds, in minutes
STATE_TTL == 10              \* timedelta(minutes=10)

HTTP_OK == 200
HTTP_ACCEPTED == 202
HTTP_BAD_REQUEST == 400

Pollers == 1..NumPollers
Handlers == 1..NumHandlers
Callers == 1..NumCallers
EventIds == 1..NumEvents
Requesters == 1..NumRequesters

VARIABLES
    events,      \* api.webhook_events: id -> row
    locks,       \* row locks (FOR UPDATE) held by each poller's open transaction
    ppc,         \* position of each poller in process_pending_events
    batch,       \* the rows a poller fetched (its local snapshot)
    pos,         \* index of the event the poller's loop is at
    failures,    \* history: failed attempts written per event
    subscriptions, \* api.webhook_subscriptions: external id -> row
    hpc,         \* position of each handler invocation
    req,         \* the request an invocation serves
    hidx,        \* index of the notification its loop is at
    counts,      \* its stored_count and duplicate_count
    tx,          \* its open transaction: rows inserted (a row's id is its place
                 \* in the table), subscriptions updated
    resp,        \* the response it returned
    hist,        \* history: keys committed when the request arrived, the
                 \* notifications whose insert raised, any other fault
    now,         \* the clock, in minutes
    cred,        \* auth.credentials: the credential's row
    tokens,      \* auth.credential_tokens: its token pair
    cache,       \* _token_cache[credential_id] of the API service
    issued,      \* access tokens the provider has issued so far
    cpc,         \* position of each get_credential_token call
    call,        \* its argument and the times it and the endpoint started
    reply,       \* the endpoint's response to it
    result,      \* what it returned
    states,      \* _oauth_states of the Auth service
    minted,      \* history: every state ever minted
    accepted,    \* history: successful validations per state
    wrongly,     \* history: a validation accepted what it should not have
    capc,        \* position of the oauth_callback in flight
    cb,          \* its locals and its outcome
    upstream,    \* subscriptions registered at the provider (Graph), by id
    removed,     \* history: external ids whose local row was deleted
    dpc,         \* position of each subscription request in flight
    dreq,        \* its locals and its response
    areq,        \* the admin request on auth.credentials served last, and
                 \* its response
    fetch,       \* how far each poller's fetch_message has got
    stats,       \* the stats dict of each poller's cycle
    marked,      \* history: ids of the events ever marked processing
    challenges,  \* auth.otp_challenges: the rows of one user, oldest first
    validation   \* each validate_otp call in flight: its position and locals

workerVars == <<locks, ppc, batch, pos, failures>>
tokenVars == <<now, cred, tokens, cache, issued, cpc, call, reply, result>>
authVars == <<states, minted, accepted, wrongly, capc, cb>>
callerVars == <<cache, cpc, call, reply, result>>
ingestVars == <<subscriptions, hpc, req, hidx, counts, tx, resp, hist>>
subsVars == <<upstream, removed, dpc, dreq>>
handlerVars == <<hpc, req, hidx, counts, tx, resp, hist>>
adminVars == <<areq>>
procVars == <<fetch, stats, marked>>
otpVars == <<challenges, validation>>
vars == <<events, workerVars, ingestVars, tokenVars, authVars, subsVars, adminVars, procVars,
          otpVars>>

(* ------------------------------------------------------------------ *)
(* Rows                                                                 *)
(* ------------------------------------------------------------------ *)
\* normalized_payload: NULL, the record process_ms365_event synthesizes for
\* a deletion, or the one it builds from the message it fetched
NoPayload == [event_type |-> "", message_id |-> "", deleted |-> FALSE, message |-> FALSE]
DeletedRecord(event_type, message_id) ==
    [event_type |-> event_type, message_id |-> message_id, deleted |-> TRUE, message |-> FALSE]
MessageRecord(event_type, message_id) ==
    [event_type |-> event_type, message_id |-> message_id, deleted |-> FALSE, message |-> TRUE]

\* what process_ms365_event returns for a row
Normalized(row) ==
    IF row.event_type = "deleted"
    THEN DeletedRecord(row.event_type, row.external_resource_id)
    ELSE MessageRecord(row.event_type, row.external_resource_id)

IdempotencyKey(credential_id, subscription_id, external_resource_id) ==
    credential_id \o ":" \o subscription_id \o ":" \o external_resource_id

\* a key that also depends on the change type
NewEvent_KeyWithChangeType(credential_id, internal_sub_id, subscription_id, change_type, external_resource_id) ==
    [ credential_id |-> credential_id,
      subscription_id |-> internal_sub_id,
      provider |-> "ms365",
      event_type |-> change_type,
      idempotency_key |-> IdempotencyKey(credential_id, subscription_id,
                                         external_resource_id \o ":" \o change_type),
      external_resource_id |-> external_resource_id,
      status |-> "pending",
      retry_count |-> 0,
      normalized |-> NoPayload ]

\* The row written by the handler's INSERT; retry_count and
\* normalized_payload take the table's defaults.
NewEvent(credential_id, internal_sub_id, subscription_id, change_type, external_resource_id) ==
    [ credential_id |-> credential_id,
      subscription_id |-> internal_sub_id,
      provider |-> "ms365",
      event_type |-> change_type,
      idempotency_key |-> IdempotencyKey(credential_id, subscription_id, external_resource_id),
      external_resource_id |-> external_resource_id,
      status |-> "pending",
      retry_count |-> 0,
      normalized |-> NoPayload ]

ResourceOf(id) == IF id = 1 THEN "r1" ELSE IF id = 2 THEN "r2" ELSE IF id = 3 THEN "r3" ELSE "r4"

(* ------------------------------------------------------------------ *)
(* process_pending_events                                               *)
(* ------------------------------------------------------------------ *)
ZeroStats == [processed |-> 0, failed |-> 0, skipped |-> 0]

\* stats[key] += 1
Count(p, key) == stats' = [stats EXCEPT ![p][key] = @ + 1]

LockedByOther(p, id) == \E q \in Pollers \ {p} : id \in locks[q]

\* WHERE status = 'pending' AND retry_count < MAX, skipping locked rows
Eligible(p) ==
    { id \in DOMAIN events :
        /\ events[id].status = "pending"
        /\ events[id].retry_count < MAX_RETRY_ATTEMPTS
        /\ ~LockedByOther(p, id) }

\* an ORDER BY received_at DESC: the newest first
RECURSIVE FirstN_Newest(_, _)
FirstN_Newest(S, n) ==
    IF n = 0 \/ S = {} THEN <<>>
    ELSE LET m == CHOOSE x \in S : \A y \in S : x >= y
         IN  <<m>> \o FirstN_Newest(S \ {m}, n - 1)

\* ORDER BY received_at ASC LIMIT n: ids are handed out in order of receipt
RECURSIVE FirstN(_, _)
FirstN(S, n) ==
    IF n = 0 \/ S = {} THEN <<>>
    ELSE LET m == CHOOSE x \in S : \A y \in S : x <= y
         IN  <<m>> \o FirstN(S \ {m}, n - 1)

Snapshot(id) ==
    [ id |-> id,
      provider |-> events[id].provider,
      event_type |-> events[id].event_type,
      retry_count |-> events[id].retry_count ]

SeqRange(s) == { s[i] : i \in 1..Len(s) }

\* SELECT ... FOR UPDATE SKIP LOCKED; an empty result returns the stats
SelectPending(p) ==
    /\ ppc[p] = "idle"
    /\ LET sel == FirstN(Eligible(p), BatchSize)
       IN  /\ batch' = [batch EXCEPT ![p] = [i \in 1..Len(sel) |-> Snapshot(sel[i])]]
           /\ IF sel = <<>>
              THEN /\ ppc' = [ppc EXCEPT ![p] = "returned"]
                   /\ locks' = [locks EXCEPT ![p] = {}]
                   /\ pos' = [pos EXCEPT ![p] = 0]
              ELSE /\ ppc' = [ppc EXCEPT ![p] = "mark"]
                   /\ locks' = [locks EXCEPT ![p] = SeqRange(sel)]
                   /\ pos' = [pos EXCEPT ![p] = 1]
    /\ UNCHANGED <<events, failures, ingestVars, tokenVars, authVars, subsVars, adminVars, otpVars, fetch, marked>>
    /\ stats' = [stats EXCEPT ![p] = ZeroStats]

Current(p) == batch[p][pos[p]]

\* UPDATE ... SET status = 'processing' WHERE id = %s; conn.commit()
\* The commit ends the transaction and so releases every row lock of the SELECT.
MarkProcessing(p) ==
    /\ ppc[p] = "mark"
    /\ ~LockedByOther(p, Current(p).id)
    /\ events' = [events EXCEPT ![Current(p).id].status = "processing"]
    /\ locks' = [locks EXCEPT ![p] = {}]
    /\ ppc' = [ppc EXCEPT ![p] = "work"]
    /\ UNCHANGED <<batch, pos, failures, ingestVars, tokenVars, authVars, subsVars, adminVars, otpVars, fetch, stats>>
    /\ marked' = marked \cup {Current(p).id}

\* end of one loop iteration: next event, or return stats and close
Advance(p) ==
    IF pos[p] < Len(batch[p])
    THEN /\ pos' = [pos EXCEPT ![p] = pos[p] + 1]
         /\ ppc' = [ppc EXCEPT ![p] = "mark"]
    ELSE /\ pos' = [pos EXCEPT ![p] = 0]
         /\ ppc' = [ppc EXCEPT ![p] = "returned"]

\* process_ms365_event returned: store normalized payload, mark completed
CompleteEvent(p) ==
    /\ ppc[p] = "work"
    /\ Current(p).provider = "ms365"
    /\ ~LockedByOther(p, Current(p).id)
    /\ events' = [events EXCEPT ![Current(p).id].status = "completed",
                                ![Current(p).id].normalized = Normalized(events[Current(p).id])]
    /\ Advance(p)
    /\ UNCHANGED <<locks, batch, failures, ingestVars, tokenVars, authVars, subsVars, adminVars, otpVars, fetch, marked>>
    /\ Count(p, "processed")

\* history counter of failed attempts, saturating above the ceiling
Bump(n) == IF n > MAX_RETRY_ATTEMPTS THEN n ELSE n + 1

\* a comparison that is off by one: the event fails one attempt later
FinalStatus_Strict(new_retry_count) ==
    IF new_retry_count > MAX_RETRY_ATTEMPTS THEN "failed" ELSE "pending"

FinalStatus(new_retry_count) ==
    IF new_retry_count >= MAX_RETRY_ATTEMPTS THEN "failed" ELSE "pending"

\* an except block that writes nothing: the event is left in 'processing'
FailEvent_NoWrite(p) ==
    /\ ppc[p] = "work"
    /\ Current(p).provider = "ms365"
    /\ Current(p).event_type # "deleted"
    /\ ~LockedByOther(p, Current(p).id)
    /\ failures' = [failures EXCEPT ![Current(p).id] = Bump(@)]
    /\ Advance(p)
    /\ UNCHANGED <<events, locks, batch, ingestVars, tokenVars, authVars, subsVars, adminVars, otpVars, fetch, marked>>
    /\ Count(p, "failed")

\* a failure that ends the cycle: the rest of the batch is left alone
FailEvent_EndsCycle(p) ==
    /\ ppc[p] = "work"
    /\ Current(p).provider = "ms365"
    /\ Current(p).event_type # "deleted"
    /\ ~LockedByOther(p, Current(p).id)
    /\ LET new_retry_count == Current(p).retry_count + 1
       IN  events' = [events EXCEPT ![Current(p).id].status = FinalStatus(new_retry_count),
                                    ![Current(p).id].retry_count = new_retry_count]
    /\ failures' = [failures EXCEPT ![Current(p).id] = Bump(@)]
    /\ pos' = [pos EXCEPT ![p] = 0]
    /\ ppc' = [ppc EXCEPT ![p] = "returned"]
    /\ UNCHANGED <<locks, batch, ingestVars, tokenVars, authVars, subsVars, adminVars, otpVars, fetch, marked>>
    /\ Count(p, "failed")

\* process_ms365_event raised (only a fetch can fail: a 'deleted' event
\* is normalized without any call)
FailEvent(p) ==
    /\ ppc[p] = "work"
    /\ Current(p).provider = "ms365"
    /\ Current(p).event_type # "deleted"
    /\ ~LockedByOther(p, Current(p).id)
    /\ LET new_retry_count == Current(p).retry_count + 1
       IN  events' = [events EXCEPT ![Current(p).id].status = FinalStatus(new_retry_count),
                                    ![Current(p).id].retry_count = new_retry_count]
    /\ failures' = [failures EXCEPT ![Current(p).id] = Bump(@)]
    /\ Advance(p)
    /\ UNCHANGED <<locks, batch, ingestVars, tokenVars, authVars, subsVars, adminVars, otpVars, fetch, marked>>
    /\ Count(p, "failed")

\* else: print("Unsupported provider"), stats["skipped"] += 1, continue:
\* nothing is written, the row stays as the first UPDATE left it
SkipUnsupported(p) ==
    /\ ppc[p] = "work"
    /\ Current(p).provider # "ms365"
    /\ Advance(p)
    /\ UNCHANGED <<events, locks, batch, failures, ingestVars, tokenVars, authVars, subsVars, adminVars, otpVars, fetch, marked>>
    /\ Count(p, "skipped")

\* run_worker_loop: sleep, then the next cycle
NextCycle(p) ==
    /\ ppc[p] = "returned"
    /\ ppc' = [ppc EXCEPT ![p] = "idle"]
    /\ UNCHANGED <<events, locks, batch, pos, failures, ingestVars, tokenVars, authVars, subsVars, adminVars, otpVars, fetch, marked>>
    /\ stats' = [stats EXCEPT ![p] = ZeroStats]

(* ------------------------------------------------------------------ *)
(* process_single_event                                                 *)
(* ------------------------------------------------------------------ *)
RowLocked(id) == \E q \in Pollers : id \in locks[q]

\* the row exists and processing succeeded: mark completed, whatever the status
SingleEventCompleted(id) ==
    /\ id \in DOMAIN events
    /\ events[id].provider = "ms365"
    /\ ~RowLocked(id)
    /\ events' = [events EXCEPT ![id].status = "completed", ![id].normalized = Normalized(events[id])]
    /\ UNCHANGED <<locks, ppc, batch, pos, failures, ingestVars, tokenVars, authVars, subsVars, adminVars, otpVars, procVars>>

\* When the row is missing or processing raises, process_single_event returns
\* False and writes nothing: that path changes no state and has no action.


(* ------------------------------------------------------------------ *)
(* receive_ms365_webhook                                                *)
(* ------------------------------------------------------------------ *)
NoToken == "<none>"          \* the query parameter is absent (None)
Tokens == {NoToken, "", "tok"}

Notification(subscriptionId, changeType, resourceId) ==
    [subscriptionId |-> subscriptionId, changeType |-> changeType, resourceId |-> resourceId]

\* s1 is a local subscription, s9 is not
Notifications ==
    { Notification("s1", "created", "r1"),
      Notification("s1", "updated", "r1"),
      Notification("s1", "created", "r2"),
      Notification("s9", "created", "r1") }

RECURSIVE SeqsUpTo(_, _)
SeqsUpTo(S, n) ==
    IF n = 0 THEN {<<>>}
    ELSE LET shorter == SeqsUpTo(S, n - 1)
         IN  shorter \cup { Append(q, x) : q \in shorter, x \in S }

\* request bodies: not JSON at all, JSON that is no object, or {"value": [...]}
Bodies ==
    { [kind |-> "notjson", value |-> <<>>], [kind |-> "notobject", value |-> <<>>] }
        \cup { [kind |-> "batch", value |-> v] : v \in SeqsUpTo(Notifications, MaxNotifications) }

NoRequest == [token |-> NoToken, body |-> [kind |-> "none", value |-> <<>>]]
NoResponse == [status |-> 0, kind |-> "none"]
EmptyTx == [rows |-> <<>>, subs |-> {}, aborted |-> FALSE]
ZeroCounts == [stored |-> 0, duplicates |-> 0]
NoHist == [pre |-> {}, raised |-> {}, other |-> FALSE]

\* Python truthiness of the Optional[str] query parameter
Truthy(token) == token # NoToken /\ token # ""

ValidationResponse(token) == [status |-> HTTP_OK, kind |-> "text", body |-> token]
EmptyResponse == [status |-> HTTP_ACCEPTED, kind |-> "empty"]
SummaryResponse(c, total) ==
    [status |-> HTTP_ACCEPTED, kind |-> "summary",
     stored |-> c.stored, duplicates |-> c.duplicates, total |-> total]
\* the exception propagates as a server error
ErrorResponse_Propagated == [status |-> 500, kind |-> "http_error"]

\* except Exception: return {"status": "accepted", "error": ...}
ErrorResponse == [status |-> HTTP_ACCEPTED, kind |-> "error"]
\* except json.JSONDecodeError: raise HTTPException(400)
InvalidJsonResponse == [status |-> HTTP_BAD_REQUEST, kind |-> "http_error"]

CommittedKeys == { events[id].idempotency_key : id \in DOMAIN events }
TxKeys(h) == { tx[h].rows[i].idempotency_key : i \in 1..Len(tx[h].rows) }

ingestFrame == <<subscriptions, hidx, counts, tx, hist>>

Finish(h, response) ==
    /\ resp' = [resp EXCEPT ![h] = response]
    /\ hpc' = [hpc EXCEPT ![h] = "done"]

\* the request arrives with a truthy validation token: echo it
ReceiveValidation(h) ==
    /\ hpc[h] = "idle"
    /\ \E t \in Tokens, b \in Bodies :
          /\ Truthy(t)
          /\ req' = [req EXCEPT ![h] = [token |-> t, body |-> b]]
          /\ Finish(h, ValidationResponse(t))
    /\ UNCHANGED <<events, workerVars, tokenVars, authVars, ingestFrame, subsVars, adminVars, otpVars, procVars>>

\* no (truthy) token: request.json(), body.get("value", []), and the
\* connection for a non-empty list
ReceiveNotifications(h) ==
    /\ hpc[h] = "idle"
    /\ \E t \in Tokens, b \in Bodies :
          /\ ~Truthy(t)
          /\ req' = [req EXCEPT ![h] = [token |-> t, body |-> b]]
          /\ hist' = [hist EXCEPT ![h] = [pre |-> CommittedKeys, raised |-> {}, other |-> FALSE]]
          /\ counts' = [counts EXCEPT ![h] = ZeroCounts]
          /\ tx' = [tx EXCEPT ![h] = EmptyTx]
          /\ IF b.kind = "notjson" THEN
                 Finish(h, InvalidJsonResponse) /\ UNCHANGED hidx
             ELSE IF b.kind = "notobject" THEN
                 Finish(h, ErrorResponse) /\ UNCHANGED hidx
             ELSE IF b.value = <<>> THEN
                 Finish(h, EmptyResponse) /\ UNCHANGED hidx
             ELSE /\ hidx' = [hidx EXCEPT ![h] = 1]
                  /\ hpc' = [hpc EXCEPT ![h] = "lookup"]
                  /\ UNCHANGED resp
    /\ UNCHANGED <<events, workerVars, tokenVars, authVars, subscriptions, subsVars, adminVars, otpVars, procVars>>

\* get_db_connection raises: the outer handler answers
ReceiveNoConnection(h) ==
    /\ hpc[h] = "idle"
    /\ \E t \in Tokens, v \in SeqsUpTo(Notifications, MaxNotifications) \ {<<>>} :
          /\ ~Truthy(t)
          /\ req' = [req EXCEPT ![h] = [token |-> t, body |-> [kind |-> "batch", value |-> v]]]
          /\ hist' = [hist EXCEPT ![h] = [pre |-> CommittedKeys, raised |-> {}, other |-> TRUE]]
          /\ counts' = [counts EXCEPT ![h] = ZeroCounts]
          /\ tx' = [tx EXCEPT ![h] = EmptyTx]
          /\ Finish(h, ErrorResponse)
    /\ UNCHANGED <<events, workerVars, tokenVars, authVars, subscriptions, hidx, subsVars, adminVars, otpVars, procVars>>

Note(h) == req[h].body.value[hidx[h]]
Total(h) == Len(req[h].body.value)

\* continue with the next notification, or leave the loop
NextNotification(h) ==
    IF hidx[h] < Total(h)
    THEN /\ hidx' = [hidx EXCEPT ![h] = hidx[h] + 1]
         /\ hpc' = [hpc EXCEPT ![h] = "lookup"]
    ELSE /\ hpc' = [hpc EXCEPT ![h] = "commit"]
         /\ UNCHANGED hidx

\* a lookup that leaves the loop at the first unknown subscription
LookupSubscription_Break(h) ==
    /\ hpc[h] = "lookup"
    /\ IF \/ Note(h).subscriptionId = ""
          \/ Note(h).resourceId = ""
          \/ Note(h).subscriptionId \notin DOMAIN subscriptions
       THEN hpc' = [hpc EXCEPT ![h] = "commit"] /\ UNCHANGED hidx
       ELSE hpc' = [hpc EXCEPT ![h] = "insert"] /\ UNCHANGED hidx
    /\ UNCHANGED <<events, workerVars, tokenVars, authVars, subscriptions, req, counts, tx, resp, hist, subsVars, adminVars, otpVars, procVars>>

\* a notification with a missing id, or of a subscription that is not in the
\* table, is skipped; otherwise the subscription row gives the credential
LookupSubscription(h) ==
    /\ hpc[h] = "lookup"
    /\ IF \/ Note(h).subscriptionId = ""
          \/ Note(h).resourceId = ""
          \/ Note(h).subscriptionId \notin DOMAIN subscriptions
       THEN NextNotification(h)
       ELSE hpc' = [hpc EXCEPT ![h] = "insert"] /\ UNCHANGED hidx
    /\ UNCHANGED <<events, workerVars, tokenVars, authVars, subscriptions, req, counts, tx, resp, hist, subsVars, adminVars, otpVars, procVars>>

Sub(h) == subscriptions[Note(h).subscriptionId]

NoteRow(h) ==
    NewEvent(Sub(h).credential_id, Sub(h).id, Note(h).subscriptionId,
             Note(h).changeType, Note(h).resourceId)

NoteKey(h) == NoteRow(h).idempotency_key

\* The unique index on idempotency_key: a key that is committed, or was
\* inserted by this transaction, is a violation; a key inserted by another
\* open transaction makes the INSERT wait for that transaction's end.
KeyTaken(h, key) == key \in CommittedKeys \/ key \in TxKeys(h)
KeyHolders(h, key) == { g \in Handlers \ {h} : key \in TxKeys(g) }
SubHolders(h, s) == { g \in Handlers \ {h} : s \in tx[g].subs }

\* an insert that counts the row twice
InsertEvent_CountsTwice(h) ==
    /\ hpc[h] = "insert"
    /\ ~KeyTaken(h, NoteKey(h))
    /\ KeyHolders(h, NoteKey(h)) = {}
    /\ tx' = [tx EXCEPT ![h].rows = Append(@, NoteRow(h))]
    /\ counts' = [counts EXCEPT ![h].stored = @ + 2]
    /\ hpc' = [hpc EXCEPT ![h] = "update"]
    /\ UNCHANGED <<events, workerVars, tokenVars, authVars, subscriptions, req, hidx, resp, hist, subsVars, adminVars, otpVars, procVars>>

\* INSERT INTO api.webhook_events ... RETURNING id; stored_count += 1
InsertEvent(h) ==
    /\ hpc[h] = "insert"
    /\ ~KeyTaken(h, NoteKey(h))
    /\ KeyHolders(h, NoteKey(h)) = {}
    /\ tx' = [tx EXCEPT ![h].rows = Append(@, NoteRow(h))]
    /\ counts' = [counts EXCEPT ![h].stored = @ + 1]
    /\ hpc' = [hpc EXCEPT ![h] = "update"]
    /\ UNCHANGED <<events, workerVars, tokenVars, authVars, subscriptions, req, hidx, resp, hist, subsVars, adminVars, otpVars, procVars>>

\* unique violation: counted as a duplicate; the transaction is now aborted
InsertDuplicate(h) ==
    /\ hpc[h] = "insert"
    /\ KeyTaken(h, NoteKey(h))
    /\ tx' = [tx EXCEPT ![h].aborted = TRUE]
    /\ counts' = [counts EXCEPT ![h].duplicates = @ + 1]
    /\ hpc' = [hpc EXCEPT ![h] = "update"]
    /\ UNCHANGED <<events, workerVars, tokenVars, authVars, subscriptions, req, hidx, resp, hist, subsVars, adminVars, otpVars, procVars>>

\* an exception leaves the handler through the outer except; conn.close()
\* rolls the open transaction back
Abort(h) ==
    /\ tx' = [tx EXCEPT ![h] = EmptyTx]
    /\ Finish(h, ErrorResponse)

\* any other insert error is raised again
InsertRaises(h) ==
    /\ hpc[h] = "insert"
    /\ hist' = [hist EXCEPT ![h].raised = @ \cup {hidx[h]}]
    /\ Abort(h)
    /\ UNCHANGED <<events, workerVars, tokenVars, authVars, subscriptions, req, hidx, counts, subsVars, adminVars, otpVars, procVars>>

\* UPDATE api.webhook_subscriptions SET last_notification_at = NOW():
\* it raises in an aborted transaction, and waits for a row lock otherwise
UpdateSubscription(h) ==
    /\ hpc[h] = "update"
    /\ IF tx[h].aborted
       THEN Abort(h) /\ UNCHANGED hidx
       ELSE /\ SubHolders(h, Note(h).subscriptionId) = {}
            /\ tx' = [tx EXCEPT ![h].subs = @ \cup {Note(h).subscriptionId}]
            /\ NextNotification(h)
            /\ UNCHANGED resp
    /\ UNCHANGED <<events, workerVars, tokenVars, authVars, subscriptions, req, counts, hist, subsVars, adminVars, otpVars, procVars>>

\* the invocations h waits for: holders of the key or of the row lock it needs
WaitsFor(h) ==
    IF hpc[h] = "insert" /\ ~KeyTaken(h, NoteKey(h)) THEN KeyHolders(h, NoteKey(h))
    ELSE IF hpc[h] = "update" /\ ~tx[h].aborted THEN SubHolders(h, Note(h).subscriptionId)
    ELSE {}

RECURSIVE WaitChain(_, _)
WaitChain(S, n) ==
    IF n = 0 THEN S ELSE WaitChain(S \cup UNION { WaitsFor(g) : g \in S }, n - 1)

InWaitCycle(h) == h \in WaitChain(WaitsFor(h), NumHandlers)

\* the database breaks a wait cycle by failing the statement of one waiter
DeadlockDetected(h) ==
    /\ hpc[h] \in {"insert", "update"}
    /\ InWaitCycle(h)
    /\ hist' = IF hpc[h] = "insert"
                THEN [hist EXCEPT ![h].raised = @ \cup {hidx[h]}]
                ELSE [hist EXCEPT ![h].other = TRUE]
    /\ Abort(h)
    /\ UNCHANGED <<events, workerVars, tokenVars, authVars, subscriptions, req, hidx, counts, subsVars, adminVars, otpVars, procVars>>

\* a commit whose UPDATE also sets the subscription's status
Commit_SetsStatus(h) ==
    /\ hpc[h] = "commit"
    /\ events' = events \o tx[h].rows
    /\ subscriptions' = [s \in DOMAIN subscriptions |->
                    IF s \in tx[h].subs
                    THEN [subscriptions[s] EXCEPT !.notified = TRUE, !.status = "notified"]
                    ELSE subscriptions[s]]
    /\ tx' = [tx EXCEPT ![h] = EmptyTx]
    /\ Finish(h, SummaryResponse(counts[h], Total(h)))
    /\ UNCHANGED <<workerVars, tokenVars, authVars, req, hidx, counts, hist, subsVars, adminVars, otpVars, procVars>>

\* conn.commit(), then the summary
Commit(h) ==
    /\ hpc[h] = "commit"
    /\ events' = events \o tx[h].rows
    /\ subscriptions' = [s \in DOMAIN subscriptions |->
                    IF s \in tx[h].subs
                    THEN [subscriptions[s] EXCEPT !.notified = TRUE]
                    ELSE subscriptions[s]]
    /\ tx' = [tx EXCEPT ![h] = EmptyTx]
    /\ Finish(h, SummaryResponse(counts[h], Total(h)))
    /\ UNCHANGED <<workerVars, tokenVars, authVars, req, hidx, counts, hist, subsVars, adminVars, otpVars, procVars>>

\* the response is sent; the invocation ends
Respond(h) ==
    /\ hpc[h] = "done"
    /\ hpc' = [hpc EXCEPT ![h] = "idle"]
    /\ req' = [req EXCEPT ![h] = NoRequest]
    /\ resp' = [resp EXCEPT ![h] = NoResponse]
    /\ hidx' = [hidx EXCEPT ![h] = 0]
    /\ counts' = [counts EXCEPT ![h] = ZeroCounts]
    /\ hist' = [hist EXCEPT ![h] = NoHist]
    /\ UNCHANGED <<events, workerVars, tokenVars, authVars, subscriptions, tx, subsVars, adminVars, otpVars, procVars>>

(* ------------------------------------------------------------------ *)
(* Subscription management: create_webhook_subscription and             *)
(* delete_webhook_subscription                                          *)
(* ------------------------------------------------------------------ *)
ExtIds == {"s1", "s2"}       \* ids the provider gives to subscriptions
LocalIds == {"sub-1", "sub-2", "sub-9"}   \* sub-9 is the id of no row
LocalIdOf(ext) == IF ext = "s1" THEN "sub-1" ELSE "sub-2"

NoSubRequest == [op |-> "none", id |-> "", ext |-> "", status |-> 0, expires_at |-> 0]
Expiries == {1, 2}           \* expirationDateTime values the provider answers with

\* SELECT ... FROM api.webhook_subscriptions WHERE id = %s
RowsWithId(id) == { s \in DOMAIN subscriptions : subscriptions[s].id = id }

\* the table without the rows of one id
Without(id) ==
    [s \in DOMAIN subscriptions \ RowsWithId(id) |-> subscriptions[s]]

subsFrame == <<events, workerVars, tokenVars, authVars, handlerVars, adminVars, otpVars, procVars>>

SubResponds(r, status) ==
    /\ dreq' = [dreq EXCEPT ![r].status = status]
    /\ dpc' = [dpc EXCEPT ![r] = "done"]

\* ids the provider has not given out yet
FreshIds == ExtIds \ (upstream \cup DOMAIN subscriptions \cup removed)

\* create_subscription returned: the subscription is registered upstream
CreateUpstream(r) ==
    /\ dpc[r] = "idle"
    /\ \E ext \in FreshIds :
          /\ upstream' = upstream \cup {ext}
          /\ dreq' = [dreq EXCEPT ![r] = [op |-> "create", id |-> LocalIdOf(ext),
                                          ext |-> ext, status |-> 0, expires_at |-> 0]]
    /\ dpc' = [dpc EXCEPT ![r] = "store"]
    /\ UNCHANGED <<subsFrame, subscriptions, removed>>

\* create_subscription raised MS365ServiceError: 400
CreateUpstreamFails(r) ==
    /\ dpc[r] = "idle"
    /\ dreq' = [dreq EXCEPT ![r] = [op |-> "create", id |-> "", ext |-> "", status |-> 400, expires_at |-> 0]]
    /\ dpc' = [dpc EXCEPT ![r] = "done"]
    /\ UNCHANGED <<subsFrame, subscriptions, upstream, removed>>

\* INSERT INTO api.webhook_subscriptions ... ; conn.commit()
CreateStore(r) ==
    /\ dpc[r] = "store"
    /\ subscriptions' = subscriptions @@
           (dreq[r].ext :> [id |-> dreq[r].id, credential_id |-> "c1", notified |-> FALSE,
                            resource_path |-> "me/mailFolders('inbox')/messages",
                            status |-> "active", expires_at |-> 0])
    /\ SubResponds(r, 201)
    /\ UNCHANGED <<subsFrame, upstream, removed>>

\* the connection or the INSERT raised: 500, and no row
CreateStoreRaises(r) ==
    /\ dpc[r] = "store"
    /\ SubResponds(r, 500)
    /\ UNCHANGED <<subsFrame, subscriptions, upstream, removed>>

\* renew: the SELECT by id; no row is 404, a row gives the external id
RenewLoad(r) ==
    /\ dpc[r] = "idle"
    /\ \E id \in LocalIds :
          IF RowsWithId(id) = {}
          THEN /\ dreq' = [dreq EXCEPT ![r] = [op |-> "renew", id |-> id, ext |-> "",
                                               status |-> 404, expires_at |-> 0]]
               /\ dpc' = [dpc EXCEPT ![r] = "done"]
          ELSE /\ dreq' = [dreq EXCEPT ![r] = [op |-> "renew", id |-> id,
                                               ext |-> CHOOSE s \in RowsWithId(id) : TRUE,
                                               status |-> 0, expires_at |-> 0]]
               /\ dpc' = [dpc EXCEPT ![r] = "rcall"]
    /\ UNCHANGED <<subsFrame, subscriptions, upstream, removed>>

\* renew_subscription returned the provider's new expiry
RenewUpstream(r) ==
    /\ dpc[r] = "rcall"
    /\ dreq[r].ext \in upstream
    /\ \E e \in Expiries : dreq' = [dreq EXCEPT ![r].expires_at = e]
    /\ dpc' = [dpc EXCEPT ![r] = "update"]
    /\ UNCHANGED <<subsFrame, subscriptions, upstream, removed>>

\* the UPDATE of renew: expires_at and status = 'active' of the rows of an id
Renewed(id, e) ==
    [s \in DOMAIN subscriptions |->
        IF subscriptions[s].id = id
        THEN [subscriptions[s] EXCEPT !.expires_at = e, !.status = "active"]
        ELSE subscriptions[s]]

\* a handler that writes the row before it calls the provider
RenewUpstreamFails_WrittenFirst(r) ==
    /\ dpc[r] = "rcall"
    /\ \E e \in Expiries : subscriptions' = Renewed(dreq[r].id, e)
    /\ SubResponds(r, 400)
    /\ UNCHANGED <<subsFrame, upstream, removed>>

\* renew_subscription raised MS365ServiceError (also for a subscription the
\* provider does not have): 400, and the UPDATE is not reached
RenewUpstreamFails(r) ==
    /\ dpc[r] = "rcall"
    /\ SubResponds(r, 400)
    /\ UNCHANGED <<subsFrame, subscriptions, upstream, removed>>

\* UPDATE ... SET expires_at, status = 'active' WHERE id = %s RETURNING ...;
\* conn.commit(). With the row gone meanwhile fetchone() is None and row[0]
\* raises after the commit: 500
RenewUpdate(r) ==
    /\ dpc[r] = "update"
    /\ subscriptions' = Renewed(dreq[r].id, dreq[r].expires_at)
    /\ SubResponds(r, IF RowsWithId(dreq[r].id) = {} THEN 500 ELSE 200)
    /\ UNCHANGED <<subsFrame, upstream, removed>>

\* the expiry cannot be parsed, or the UPDATE or the commit raised: 500
RenewUpdateRaises(r) ==
    /\ dpc[r] = "update"
    /\ SubResponds(r, 500)
    /\ UNCHANGED <<subsFrame, subscriptions, upstream, removed>>

\* the SELECT by id: no row is 404, a row gives the external id
DeleteLoad(r) ==
    /\ dpc[r] = "idle"
    /\ \E id \in LocalIds :
          IF RowsWithId(id) = {}
          THEN /\ dreq' = [dreq EXCEPT ![r] = [op |-> "delete", id |-> id, ext |-> "",
                                               status |-> 404, expires_at |-> 0]]
               /\ dpc' = [dpc EXCEPT ![r] = "done"]
          ELSE /\ dreq' = [dreq EXCEPT ![r] = [op |-> "delete", id |-> id,
                                               ext |-> CHOOSE s \in RowsWithId(id) : TRUE,
                                               status |-> 0, expires_at |-> 0]]
               /\ dpc' = [dpc EXCEPT ![r] = "call"]
    /\ UNCHANGED <<subsFrame, subscriptions, upstream, removed>>

\* get_db_connection raised before the SELECT: 500
DeleteNoConnection(r) ==
    /\ dpc[r] = "idle"
    /\ \E id \in LocalIds :
          dreq' = [dreq EXCEPT ![r] = [op |-> "delete", id |-> id, ext |-> "", status |-> 500, expires_at |-> 0]]
    /\ dpc' = [dpc EXCEPT ![r] = "done"]
    /\ UNCHANGED <<subsFrame, subscriptions, upstream, removed>>

\* delete_subscription returned: the provider has removed the subscription
DeleteUpstream(r) ==
    /\ dpc[r] = "call"
    /\ dreq[r].ext \in upstream
    /\ upstream' = upstream \ {dreq[r].ext}
    /\ dpc' = [dpc EXCEPT ![r] = "remove"]
    /\ UNCHANGED <<subsFrame, subscriptions, removed, dreq>>

\* a provider error that is not raised: the handler goes on to the DELETE
DeleteUpstreamFails_Swallowed(r) ==
    /\ dpc[r] = "call"
    /\ dpc' = [dpc EXCEPT ![r] = "remove"]
    /\ UNCHANGED <<subsFrame, subscriptions, upstream, removed, dreq>>

\* delete_subscription raised MS365ServiceError (no token, no client, an
\* error status of the provider, a subscription the provider does not have):
\* 400, and the DELETE is not reached
DeleteUpstreamFails(r) ==
    /\ dpc[r] = "call"
    /\ SubResponds(r, 400)
    /\ UNCHANGED <<subsFrame, subscriptions, upstream, removed>>

\* the provider removed the subscription but its answer did not arrive: the
\* call raised all the same
DeleteUpstreamLost(r) ==
    /\ dpc[r] = "call"
    /\ dreq[r].ext \in upstream
    /\ upstream' = upstream \ {dreq[r].ext}
    /\ SubResponds(r, 400)
    /\ UNCHANGED <<subsFrame, subscriptions, removed>>

\* DELETE FROM api.webhook_subscriptions WHERE id = %s; conn.commit(): 204
DeleteLocal(r) ==
    /\ dpc[r] = "remove"
    /\ subscriptions' = Without(dreq[r].id)
    /\ removed' = removed \cup RowsWithId(dreq[r].id)
    /\ SubResponds(r, 204)
    /\ UNCHANGED <<subsFrame, upstream>>

\* the DELETE or the commit raised: 500, the row stays
DeleteLocalRaises(r) ==
    /\ dpc[r] = "remove"
    /\ SubResponds(r, 500)
    /\ UNCHANGED <<subsFrame, subscriptions, upstream, removed>>

\* the response is sent; the request ends
SubReturns(r) ==
    /\ dpc[r] = "done"
    /\ dpc' = [dpc EXCEPT ![r] = "idle"]
    /\ dreq' = [dreq EXCEPT ![r] = NoSubRequest]
    /\ UNCHANGED <<subsFrame, subscriptions, upstream, removed>>

(* ------------------------------------------------------------------ *)
(* Token broker: get_credential_token (API service) and the            *)
(* token-vending endpoint get_credential_token_internal (Auth service)  *)
(* ------------------------------------------------------------------ *)
NULL == {}                   \* None; an expiry t is held as {t}
Given(v) == {v}              \* an Optional field that is supplied
ValueOf(opt) == CHOOSE v \in opt : TRUE
At(t) == {t}
TimeOf(expires_at) == CHOOSE t \in expires_at : TRUE
ExpiresIn == {2, 7}          \* lifetimes the provider grants, in minutes
\* an access token stored by an authorization that came before the calls
Authorized == MaxIssued + 1
NoTokens == [access |-> 0, refresh |-> "", expires_at |-> NULL]
NoCache == [access_token |-> 0, expires_at |-> NULL]
NoCall == [callTime |-> 0, vendTime |-> 0, force_refresh |-> FALSE, new_tokens |-> NULL]
\* refresh_token of the provider's refresh response: none, or a new one
Rotated == {"", "rt2"}
NoReply == [access_token |-> 0, expires_at |-> NULL]
NoResult == [ok |-> FALSE, error |-> "none"]

Failure(error) == [ok |-> FALSE, error |-> error]

\* except httpx.HTTPStatusError: the AuthClientError raised for a status
AuthClientErrorOf(status) ==
    IF status = 404 THEN "Credential not found or not connected"
    ELSE IF status = 401 THEN "Invalid SERVICE_SECRET"
    ELSE IF status = 400 THEN "Bad request"
    ELSE "Auth service error"

\* the endpoint raised HTTPException(status, detail); the client raises
EndpointFailure(status, detail) ==
    [ok |-> FALSE, status |-> status, detail |-> detail, error |-> AuthClientErrorOf(status)]
Success(token_data) ==
    [ok |-> TRUE, access_token |-> token_data.access_token, expires_at |-> token_data.expires_at]

\* if expires_at > now + 300: return cached
CacheValid(cached, t) ==
    /\ cached # NoCache
    /\ cached.expires_at # NULL
    /\ TimeOf(cached.expires_at) > t + SAFETY_MARGIN

\* the stored token is returned whatever its expiry
NeedsRefresh_Never(expires_at, t) == FALSE

\* if expires_at and (expires_at - now).total_seconds() < 300
NeedsRefresh(expires_at, t) ==
    /\ expires_at # NULL
    /\ TimeOf(expires_at) - t < SAFETY_MARGIN

callerFrame == <<cred, tokens, cache, issued, now>>

\* oauth_callback succeeded: the credential is connected and the token pair
\* of the provider stored, expires_at = now() + expires_in
OAuthCallbackStored ==
    /\ issued < MaxIssued
    /\ \E refresh \in {"", "rt"}, expires_in \in ExpiresIn :
          tokens' = [access |-> issued + 1, refresh |-> refresh,
                     expires_at |-> At(now + expires_in)]
    /\ cred.status # "deleted"
    /\ cred' = [cred EXCEPT !.status = "connected", !.error_message = ""]
    /\ issued' = issued + 1
    /\ UNCHANGED <<cache, now, cpc, call, reply, result>>

\* delete_credential: the row goes, and its tokens with it (CASCADE)
DeleteCredential ==
    /\ cred.status # "deleted"
    /\ cred' = [cred EXCEPT !.status = "deleted"]
    /\ tokens' = NoTokens
    /\ UNCHANGED <<cache, issued, now, cpc, call, reply, result>>

\* a cache hit returns the cached dict without any request
GetTokenCached(c) ==
    /\ cpc[c] = "idle"
    /\ cache # NoCache => cache.expires_at # NULL
    /\ CacheValid(cache, now)
    /\ call' = [call EXCEPT ![c] = [callTime |-> now, vendTime |-> now,
                                    force_refresh |-> FALSE, new_tokens |-> NULL]]
    /\ result' = [result EXCEPT ![c] = Success(cache)]
    /\ cpc' = [cpc EXCEPT ![c] = "done"]
    /\ UNCHANGED <<callerFrame, reply>>

\* a cached dict whose expires_at is None: None > now + 300 raises TypeError
GetTokenCacheRaises(c) ==
    /\ cpc[c] = "idle"
    /\ cache # NoCache /\ cache.expires_at = NULL
    /\ call' = [call EXCEPT ![c] = [callTime |-> now, vendTime |-> now,
                                    force_refresh |-> FALSE, new_tokens |-> NULL]]
    /\ result' = [result EXCEPT ![c] = Failure("TypeError")]
    /\ cpc' = [cpc EXCEPT ![c] = "done"]
    /\ UNCHANGED <<callerFrame, reply>>

\* force_refresh, or no usable cache entry: POST to the Auth service
GetTokenRequest(c) ==
    /\ cpc[c] = "idle"
    /\ \E force \in BOOLEAN :
          /\ force \/ cache = NoCache \/ (cache.expires_at # NULL /\ ~CacheValid(cache, now))
          /\ call' = [call EXCEPT ![c] = [callTime |-> now, vendTime |-> now,
                                          force_refresh |-> force, new_tokens |-> NULL]]
    /\ cpc' = [cpc EXCEPT ![c] = "vend"]
    /\ UNCHANGED <<callerFrame, reply, result>>

RefreshTokens == {"", "rt"}  \* encrypted_refresh_token: none, or one

\* a response that also carries the stored refresh token
VendResponse_WithRefresh(stored) ==
    [access_token |-> stored.access, expires_at |-> stored.expires_at,
     refresh_token |-> stored.refresh]

\* the response body built from the stored row when no refresh is needed
\* (token_type, credential_id and provider are those of the credential)
VendResponse(stored) ==
    [access_token |-> stored.access, expires_at |-> stored.expires_at]

ClientFails(c, status, detail) ==
    /\ result' = [result EXCEPT ![c] = EndpointFailure(status, detail)]
    /\ cpc' = [cpc EXCEPT ![c] = "done"]
    /\ UNCHANGED reply

\* the endpoint: the connected credential's row joined with its tokens, then
\* the expiry check
VendLookup(c) ==
    /\ cpc[c] = "vend"
    /\ call' = [call EXCEPT ![c].vendTime = now]
    /\ IF cred.status # "connected" THEN ClientFails(c, 404, "Credential not found or not connected")
       ELSE IF tokens.access = 0 THEN ClientFails(c, 404, "No tokens found for this credential")
       ELSE IF NeedsRefresh(tokens.expires_at, now) THEN
            IF tokens.refresh = ""
            THEN ClientFails(c, 401, "Token expired and no refresh token available")
            ELSE /\ cpc' = [cpc EXCEPT ![c] = "refresh"]
                 /\ UNCHANGED <<reply, result>>
       ELSE /\ reply' = [reply EXCEPT ![c] = VendResponse(tokens)]
            /\ cpc' = [cpc EXCEPT ![c] = "reply"]
            /\ UNCHANGED result
    /\ UNCHANGED callerFrame

\* the provider answers the refresh: UPDATE ... SET encrypted_access_token,
\* expires_at = now() + expires_in ... RETURNING expires_at; no row comes
\* back when the credential was deleted meanwhile, and expires_at is None
RefreshStored(c) ==
    /\ cpc[c] = "refresh"
    /\ issued < MaxIssued
    /\ \E expires_in \in ExpiresIn, refresh_token \in Rotated :
          LET row == tokens.access # 0
              new_expires_at == IF row THEN At(now + expires_in) ELSE NULL
          IN  /\ call' = [call EXCEPT ![c].new_tokens =
                    Given([access_token |-> issued + 1, expires_in |-> expires_in,
                           refresh_token |-> refresh_token])]
              /\ tokens' = IF row
                           THEN [tokens EXCEPT !.access = issued + 1,
                                               !.expires_at = new_expires_at]
                           ELSE tokens
              /\ reply' = [reply EXCEPT ![c] =
                    [access_token |-> issued + 1, expires_at |-> new_expires_at]]
    /\ issued' = issued + 1
    /\ cpc' = [cpc EXCEPT ![c] = "reply"]
    /\ UNCHANGED <<cred, cache, now, result>>

\* a rejected refresh that marks the credential
RefreshRejected_MarksError(c) ==
    /\ cpc[c] = "refresh"
    /\ ClientFails(c, 502, "Token refresh failed")
    /\ cred' = [cred EXCEPT !.status = "error"]
    /\ UNCHANGED <<tokens, cache, issued, now, call>>

\* the provider rejects the refresh: HTTPException(502)
RefreshRejected(c) ==
    /\ cpc[c] = "refresh"
    /\ ClientFails(c, 502, "Token refresh failed")
    /\ UNCHANGED <<callerFrame, call>>

\* the two halves of a successful refresh, which other requests may come
\* between. First, await refresh_access_token(...): the provider's answer
RefreshCall(c) ==
    /\ cpc[c] = "refresh"
    /\ issued < MaxIssued
    /\ \E expires_in \in ExpiresIn, refresh_token \in Rotated :
          call' = [call EXCEPT ![c].new_tokens =
                    Given([access_token |-> issued + 1, expires_in |-> expires_in,
                           refresh_token |-> refresh_token])]
    /\ issued' = issued + 1
    /\ cpc' = [cpc EXCEPT ![c] = "update"]
    /\ UNCHANGED <<cred, tokens, cache, now, reply, result>>

\* an UPDATE that lets an expiry already stored stand when it is the later
RefreshUpdate_KeepsLaterExpiry(c) ==
    /\ cpc[c] = "update"
    /\ LET new_tokens == ValueOf(call[c].new_tokens)
           row == tokens.access # 0
           written == now + new_tokens.expires_in
           new_expires_at ==
               IF ~row THEN NULL
               ELSE IF tokens.expires_at # NULL /\ TimeOf(tokens.expires_at) > written
                    THEN tokens.expires_at
                    ELSE At(written)
       IN  /\ tokens' = IF row
                        THEN [tokens EXCEPT !.access = new_tokens.access_token,
                                            !.expires_at = new_expires_at]
                        ELSE tokens
           /\ reply' = [reply EXCEPT ![c] =
                 [access_token |-> new_tokens.access_token, expires_at |-> new_expires_at]]
    /\ cpc' = [cpc EXCEPT ![c] = "reply"]
    /\ UNCHANGED <<cred, cache, issued, now, call, result>>

\* then the one UPDATE ... SET encrypted_access_token = ..., expires_at =
\* now() + expires_in ... RETURNING expires_at, and the response built from
\* new_tokens and the returned expiry
RefreshUpdate(c) ==
    /\ cpc[c] = "update"
    /\ LET new_tokens == ValueOf(call[c].new_tokens)
           row == tokens.access # 0
           new_expires_at == IF row THEN At(now + new_tokens.expires_in) ELSE NULL
       IN  /\ tokens' = IF row
                        THEN [tokens EXCEPT !.access = new_tokens.access_token,
                                            !.expires_at = new_expires_at]
                        ELSE tokens
           /\ reply' = [reply EXCEPT ![c] =
                 [access_token |-> new_tokens.access_token, expires_at |-> new_expires_at]]
    /\ cpc' = [cpc EXCEPT ![c] = "reply"]
    /\ UNCHANGED <<cred, cache, issued, now, call, result>>

\* the client caches the response and returns it
ClientReceives(c) ==
    /\ cpc[c] = "reply"
    /\ cache' = reply[c]
    /\ result' = [result EXCEPT ![c] = Success(reply[c])]
    /\ cpc' = [cpc EXCEPT ![c] = "done"]
    /\ UNCHANGED <<cred, tokens, issued, now, call, reply>>

\* clear_token_cache(credential_id): _token_cache.pop(credential_id, None)
ClearTokenCache ==
    /\ cache # NoCache
    /\ cache' = NoCache
    /\ UNCHANGED <<cred, tokens, issued, now, cpc, call, reply, result>>

\* what the endpoint can answer a request that reaches it now, as VendLookup
\* and the refresh decide it: a token, or the status of the HTTPException
EndpointOutcomes ==
    IF cred.status # "connected" THEN {404}
    ELSE IF tokens.access = 0 THEN {404}
    ELSE IF NeedsRefresh(tokens.expires_at, now)
         THEN IF tokens.refresh = "" THEN {401} ELSE {200, 502}
         ELSE {200}

\* the caller takes the result
CallReturns(c) ==
    /\ cpc[c] = "done"
    /\ cpc' = [cpc EXCEPT ![c] = "idle"]
    /\ call' = [call EXCEPT ![c] = NoCall]
    /\ reply' = [reply EXCEPT ![c] = NoReply]
    /\ result' = [result EXCEPT ![c] = NoResult]
    /\ UNCHANGED callerFrame

\* time passes
Tick ==
    /\ now < MaxTime
    /\ now' = now + 1
    /\ UNCHANGED <<cred, tokens, cache, issued, cpc, call, reply, result>>

(* ------------------------------------------------------------------ *)
(* process_ms365_event, step by step: the token request and the Graph   *)
(* call of fetch_message                                                *)
(* ------------------------------------------------------------------ *)
processFrame == <<locks, batch, marked, ingestVars, tokenVars, authVars, subsVars, adminVars, otpVars>>

\* the first UPDATE of the loop body: the normalized payload, completed
Completes(p, normalized) ==
    /\ ~LockedByOther(p, Current(p).id)
    /\ events' = [events EXCEPT ![Current(p).id].status = "completed",
                                ![Current(p).id].normalized = normalized]
    /\ Advance(p)
    /\ Count(p, "processed")
    /\ UNCHANGED failures

\* the except block: retry_count + 1, pending or failed
Fails(p) ==
    /\ ~LockedByOther(p, Current(p).id)
    /\ LET new_retry_count == Current(p).retry_count + 1
       IN  events' = [events EXCEPT ![Current(p).id].status = FinalStatus(new_retry_count),
                                    ![Current(p).id].retry_count = new_retry_count]
    /\ failures' = [failures EXCEPT ![Current(p).id] = Bump(@)]
    /\ Advance(p)
    /\ Count(p, "failed")

\* if event_type == 'deleted': return the synthesized record
NormalizeDeleted(p) ==
    /\ ppc[p] = "work"
    /\ Current(p).event_type = "deleted"
    /\ Completes(p, DeletedRecord(Current(p).event_type,
                                  events[Current(p).id].external_resource_id))
    /\ UNCHANGED <<fetch, processFrame>>

\* a token request made for every event, deletions included
RequestToken_AnyType(p) ==
    /\ ppc[p] = "work"
    /\ fetch[p] = "none"
    /\ 200 \in EndpointOutcomes
    /\ fetch' = [fetch EXCEPT ![p] = "token"]
    /\ UNCHANGED <<events, ppc, pos, failures, stats, processFrame>>

\* fetch_message: the Graph client asks the Auth service for the
\* credential's token (FlovifyTokenCredential.get_token) and gets one
RequestToken(p) ==
    /\ ppc[p] = "work"
    /\ Current(p).event_type # "deleted"
    /\ fetch[p] = "none"
    /\ 200 \in EndpointOutcomes
    /\ fetch' = [fetch EXCEPT ![p] = "token"]
    /\ UNCHANGED <<events, ppc, pos, failures, stats, processFrame>>

\* the Auth service refuses the token: fetch_message raises
RequestTokenFails(p) ==
    /\ ppc[p] = "work"
    /\ Current(p).event_type # "deleted"
    /\ fetch[p] = "none"
    /\ EndpointOutcomes # {200}
    /\ Fails(p)
    /\ UNCHANGED <<fetch, processFrame>>

\* client.me.messages.by_message_id(message_id).get() returned the message
GraphGet(p) ==
    /\ ppc[p] = "work"
    /\ fetch[p] = "token"
    /\ Completes(p, MessageRecord(Current(p).event_type,
                                  events[Current(p).id].external_resource_id))
    /\ fetch' = [fetch EXCEPT ![p] = "none"]
    /\ UNCHANGED processFrame

\* the Graph call raised, or returned no message
GraphGetFails(p) ==
    /\ ppc[p] = "work"
    /\ fetch[p] = "token"
    /\ Fails(p)
    /\ fetch' = [fetch EXCEPT ![p] = "none"]
    /\ UNCHANGED processFrame

(* ------------------------------------------------------------------ *)
(* OAuth flow of the Auth service: state tokens (services/oauth.py),    *)
(* authorize_oauth, oauth_callback, update_credential                   *)
(* ------------------------------------------------------------------ *)
NoIdentifier == "<no identifier>"     \* validate_oauth_state returned None
NoProvider == "<no provider>"         \* the provider argument left out
Providers == {"ms365", "google_workspace"}
StateTokens == 1..MaxStates
Forged == 0                           \* a state string that was never minted
AuthInstants == {3, 11}               \* the instants the clock is looked at

Pop(S, state) == [x \in DOMAIN S \ {state} |-> S[x]]

\* _oauth_states[state] = {identifier, provider, expires_at: utcnow() + 10 min}
generate_oauth_state(S, state, identifier, provider, t) ==
    state :> [identifier |-> identifier, provider |-> provider,
              expires_at |-> t + STATE_TTL] @@ S

\* a validation that leaves the state in place
validate_oauth_state_NoPop(S, state, provider, t) ==
    IF state \notin DOMAIN S THEN [identifier |-> NoIdentifier, states |-> S]
    ELSE [identifier |-> S[state].identifier, states |-> S]

\* validate_oauth_state: the identifier, or None, and what is left of
\* _oauth_states
validate_oauth_state(S, state, provider, t) ==
    IF state \notin DOMAIN S THEN [identifier |-> NoIdentifier, states |-> S]
    ELSE IF provider # NoProvider /\ S[state].provider # provider
         THEN [identifier |-> NoIdentifier, states |-> S]
    ELSE IF t > S[state].expires_at
         THEN [identifier |-> NoIdentifier, states |-> Pop(S, state)]
    ELSE [identifier |-> S[state].identifier, states |-> Pop(S, state)]

NoCallback ==
    [state |-> Forged, identifier |-> NoIdentifier, detail |-> "", outcome |-> "none",
     marked |-> FALSE]

flowFrame == <<now, cred, tokens, issued>>
callbackFrame == <<capc, cb>>
stateFrame == <<states, minted, accepted, wrongly>>

\* a state string somebody can present: forged, or one that was minted
Presentable(state) == state = Forged \/ state \in DOMAIN minted

\* judged on the history: the state was minted, for this provider if one is
\* named, is not past its expiry and was not accepted before
Legitimate(state, provider) ==
    /\ state \in DOMAIN minted
    /\ provider \in {NoProvider, minted[state].provider}
    /\ now <= minted[state].expires_at
    /\ accepted[state] = 0

\* a validation took place: _oauth_states is what it left, and the history
\* notes what it returned
Validated(state, provider, r) ==
    /\ states' = r.states
    /\ accepted' = IF r.identifier # NoIdentifier /\ state \in StateTokens
                   THEN [accepted EXCEPT ![state] = Bump(@)]
                   ELSE accepted
    /\ wrongly' = (wrongly \/ (r.identifier # NoIdentifier /\ ~Legitimate(state, provider)))
    /\ UNCHANGED minted

Mint(identifier, provider) ==
    LET state == Cardinality(DOMAIN minted) + 1
    IN  /\ state \in StateTokens
        /\ states' = generate_oauth_state(states, state, identifier, provider, now)
        /\ minted' = generate_oauth_state(minted, state, identifier, provider, now)
        /\ UNCHANGED <<accepted, wrongly>>

\* authorize_oauth: the credential's row is read and a state minted for it
AuthorizeOAuth ==
    /\ cred.status # "deleted"
    /\ Mint("c1", cred.provider)
    /\ UNCHANGED <<flowFrame, callbackFrame>>

\* ms365_callback (tenant flow): validate_oauth_state(state, "ms365"); what
\* follows works on the tenant tables
TenantCallbackValidate ==
    /\ \E state \in StateTokens \cup {Forged} :
          /\ Presentable(state)
          /\ Validated(state, "ms365", validate_oauth_state(states, state, "ms365", now))
    /\ UNCHANGED <<flowFrame, callbackFrame>>

\* oauth_callback with the error parameter: a redirect, nothing is touched
CallbackDeclined ==
    /\ capc = "idle"
    /\ capc' = "done"
    /\ cb' = [cb EXCEPT !.outcome = "redirect: error"]
    /\ UNCHANGED <<flowFrame, stateFrame>>

\* oauth_callback: validate_oauth_state(state); None is answered 400
CallbackValidate ==
    /\ capc = "idle"
    /\ \E state \in StateTokens \cup {Forged} :
          LET r == validate_oauth_state(states, state, NoProvider, now)
          IN  /\ Presentable(state)
              /\ Validated(state, NoProvider, r)
              /\ IF r.identifier = NoIdentifier
                 THEN /\ capc' = "done"
                      /\ cb' = [cb EXCEPT !.state = state,
                                          !.outcome = "400: Invalid or expired state"]
                 ELSE /\ capc' = "load"
                      /\ cb' = [cb EXCEPT !.state = state, !.identifier = r.identifier]
    /\ UNCHANGED flowFrame

RowExists == cb.identifier = "c1" /\ cred.status # "deleted"

CallbackRaises(detail) ==
    /\ capc' = "failed"
    /\ cb' = [cb EXCEPT !.detail = detail]

\* SELECT ... FROM auth.credentials WHERE id = credential_id
CallbackLoad ==
    /\ capc = "load"
    /\ IF RowExists
       THEN capc' = "exchange" /\ UNCHANGED cb
       ELSE CallbackRaises("404: Credential not found")
    /\ UNCHANGED <<flowFrame, stateFrame>>

\* exchange_code_for_tokens: the provider answers 200, or not
CallbackExchange ==
    /\ capc = "exchange"
    /\ \/ capc' = "userinfo" /\ UNCHANGED cb
       \/ CallbackRaises("502: Token exchange failed")
    /\ UNCHANGED <<flowFrame, stateFrame>>

\* get_ms365_user_info / get_google_user_info
CallbackUserInfo ==
    /\ capc = "userinfo"
    /\ \/ capc' = "persist" /\ UNCHANGED cb
       \/ CallbackRaises("Failed to get user info")
    /\ UNCHANGED <<flowFrame, stateFrame>>

\* UPDATE auth.credentials SET status = 'connected', error_message = NULL;
\* INSERT INTO auth.credential_tokens ... ON CONFLICT DO UPDATE, with
\* encrypt_token(tokens.get("refresh_token", "")) and now() + expires_in
StoreConnected(refresh, expires_in) ==
    /\ tokens' = [access |-> issued + 1, refresh |-> refresh,
                  expires_at |-> At(now + expires_in)]
    /\ cred' = [cred EXCEPT !.status = "connected", !.error_message = ""]
    /\ issued' = issued + 1

\* the two statements are committed together
CallbackPersist ==
    /\ capc = "persist"
    /\ RowExists
    /\ issued < MaxIssued
    /\ \E refresh \in {"", "rt"}, expires_in \in ExpiresIn : StoreConnected(refresh, expires_in)
    /\ capc' = "done"
    /\ cb' = [cb EXCEPT !.outcome = "redirect: success"]
    /\ UNCHANGED <<now, stateFrame>>

\* the UPDATE of the credential is committed before the INSERT raises
CallbackPersistRaises_Partial ==
    /\ capc = "persist"
    /\ CallbackRaises("Failed to store tokens")
    /\ cred' = [cred EXCEPT !.status = "connected", !.error_message = ""]
    /\ UNCHANGED <<now, tokens, issued, stateFrame>>

\* a statement raises (the row of the credential is gone, or the database
\* fails): nothing was committed, conn.close() rolls back
CallbackPersistRaises ==
    /\ capc = "persist"
    /\ CallbackRaises("Failed to store tokens")
    /\ UNCHANGED <<flowFrame, stateFrame>>

\* except Exception: UPDATE auth.credentials SET status = 'error',
\* error_message = str(e) WHERE id = credential_id; then the redirect
CallbackMarkError ==
    /\ capc = "failed"
    /\ cred' = IF RowExists
               THEN [cred EXCEPT !.status = "error", !.error_message = cb.detail]
               ELSE cred
    /\ capc' = "done"
    /\ cb' = [cb EXCEPT !.outcome = "redirect: error", !.marked = RowExists]
    /\ UNCHANGED <<now, tokens, issued, stateFrame>>

\* the UPDATE itself raises: except: pass; then the redirect
CallbackMarkErrorRaises ==
    /\ capc = "failed"
    /\ capc' = "done"
    /\ cb' = [cb EXCEPT !.outcome = "redirect: error"]
    /\ UNCHANGED <<flowFrame, stateFrame>>

CallbackReturns ==
    /\ capc = "done"
    /\ capc' = "idle"
    /\ cb' = NoCallback
    /\ UNCHANGED <<flowFrame, stateFrame>>

\* update_credential: a change of client_id, client_secret, redirect_uri,
\* tenant_id or scopes sets status = 'pending'; display_name and the URLs
\* leave the status alone; the tokens are not touched
UpdateCredential ==
    /\ cred.status # "deleted"
    /\ \E oauth_config \in BOOLEAN :
          cred' = IF oauth_config THEN [cred EXCEPT !.status = "pending"] ELSE cred
    /\ UNCHANGED <<now, tokens, issued, callbackFrame, stateFrame>>

\* time passes, up to the next instant
TickTo ==
    /\ \E t \in AuthInstants :
          /\ t > now
          /\ \A u \in AuthInstants : u > now => t <= u
          /\ now' = t
    /\ UNCHANGED <<cred, tokens, issued, callbackFrame, stateFrame>>

(* ------------------------------------------------------------------ *)
(* Credential administration: create_credential and update_credential  *)
(* (routers/credentials.py) over the row of auth.credentials            *)
(* ------------------------------------------------------------------ *)
\* get_provider_defaults; an unknown provider raises 400
KnownProviders == {"ms365", "google_workspace"}
get_provider_defaults(provider, tenant_id) ==
    IF provider = "ms365"
    THEN LET tenant_segment ==
                 IF tenant_id # NULL /\ ValueOf(tenant_id) # "" THEN ValueOf(tenant_id)
                 ELSE "common"
         IN  [ authorization_url |->
                   "https://login.microsoftonline.com/" \o tenant_segment \o "/oauth2/v2.0/authorize",
               token_url |->
                   "https://login.microsoftonline.com/" \o tenant_segment \o "/oauth2/v2.0/token",
               scopes |-> << "offline_access",
                             "https://graph.microsoft.com/Mail.Read",
                             "https://graph.microsoft.com/Mail.Send",
                             "https://graph.microsoft.com/User.Read" >> ]
    ELSE [ authorization_url |-> "https://accounts.google.com/o/oauth2/v2/auth",
           token_url |-> "https://oauth2.googleapis.com/token",
           scopes |-> << "https://www.googleapis.com/auth/gmail.readonly",
                         "https://www.googleapis.com/auth/gmail.send",
                         "https://www.googleapis.com/auth/userinfo.email" >> ]

\* encrypt_token: the empty string stays empty
encrypt_token(v) == IF v = "" THEN "" ELSE "enc(" \o v \o ")"

\* `request.x or default` for a string and for a list
OrDefault(opt, default) ==
    IF opt # NULL /\ ValueOf(opt) # "" THEN ValueOf(opt) ELSE default
OrDefaultList(opt, default) ==
    IF opt # NULL /\ ValueOf(opt) # <<>> THEN ValueOf(opt) ELSE default

CreateRequests ==
    [ provider : KnownProviders \cup {"slack"},
      tenant_id : {NULL, Given("t1")},
      authorization_url : {NULL, Given(""), Given("https://idp.example/authorize")},
      token_url : {NULL, Given("https://idp.example/token")},
      scopes : {NULL, Given(<<>>), Given(<<"Mail.Read">>)} ]

NoAdminRequest == [op |-> "none", status |-> 0]

\* the token pair the callback stored for a connected credential
ConnectedTokens == [access |-> Authorized, refresh |-> "rt", expires_at |-> At(MaxTime)]

NoCredential ==
    [ status |-> "deleted", provider |-> "", error_message |-> "",
      display_name |-> "", client_id |-> "", encrypted_client_secret |-> "",
      redirect_uri |-> "", tenant_id |-> NULL, authorization_url |-> "",
      token_url |-> "", scopes |-> <<>>, connected_email |-> NULL ]

\* the row of the INSERT: status 'pending', defaults where nothing is given
NewCredential(request) ==
    LET defaults == get_provider_defaults(request.provider, request.tenant_id)
    IN  [ status |-> "pending", provider |-> request.provider, error_message |-> "",
          display_name |-> "Acme", client_id |-> "app-1",
          encrypted_client_secret |-> encrypt_token("secret-1"),
          redirect_uri |-> "https://app.example/callback",
          tenant_id |-> request.tenant_id,
          authorization_url |-> OrDefault(request.authorization_url, defaults.authorization_url),
          token_url |-> OrDefault(request.token_url, defaults.token_url),
          scopes |-> OrDefaultList(request.scopes, defaults.scopes),
          connected_email |-> NULL ]

adminFrame == <<events, workerVars, ingestVars, authVars, subsVars, procVars, otpVars,
                now, tokens, cache, issued, cpc, call, reply, result>>

\* create_credential: 400 for an unknown provider, 409 when the name is
\* taken (the one credential of the model exists), 201 and the row otherwise
CreateCredential ==
    /\ areq.op = "none"
    /\ \E request \in CreateRequests :
          IF request.provider \notin KnownProviders
          THEN /\ areq' = [op |-> "create", status |-> 400, request |-> request]
               /\ UNCHANGED cred
          ELSE IF cred.status # "deleted"
          THEN /\ areq' = [op |-> "create", status |-> 409, request |-> request]
               /\ UNCHANGED cred
          ELSE /\ areq' = [op |-> "create", status |-> 201, request |-> request]
               /\ cred' = NewCredential(request)
    /\ UNCHANGED adminFrame

UpdateRequests ==
    [ display_name : {NULL, Given("Acme 2")},
      client_id : {NULL, Given("app-2")},
      client_secret : {NULL, Given("secret-2")},
      redirect_uri : {NULL, Given("https://app.example/callback2")},
      tenant_id : {NULL, Given("t2")},
      authorization_url : {NULL, Given("https://idp2.example/authorize")},
      token_url : {NULL, Given("https://idp2.example/token")},
      scopes : {NULL, Given(<<"Mail.Send">>)} ]

ResetFields == {"client_id", "client_secret", "redirect_uri", "tenant_id", "scopes"}

\* the `updates` list: the columns of the SET clause, in the order appended
SetClause(request) ==
    (IF request.display_name # NULL THEN <<"display_name">> ELSE <<>>)
    \o (IF request.client_id # NULL THEN <<"client_id", "status">> ELSE <<>>)
    \o (IF request.client_secret # NULL THEN <<"encrypted_client_secret", "status">> ELSE <<>>)
    \o (IF request.redirect_uri # NULL THEN <<"redirect_uri", "status">> ELSE <<>>)
    \o (IF request.tenant_id # NULL THEN <<"tenant_id", "status">> ELSE <<>>)
    \o (IF request.authorization_url # NULL THEN <<"authorization_url">> ELSE <<>>)
    \o (IF request.token_url # NULL THEN <<"token_url">> ELSE <<>>)
    \o (IF request.scopes # NULL THEN <<"scopes", "status">> ELSE <<>>)

\* PostgreSQL rejects an UPDATE whose SET clause assigns a column twice
\* ("multiple assignments to same column")
MultipleAssignments(updates) ==
    \E i, j \in 1..Len(updates) : i < j /\ updates[i] = updates[j]

\* a change of an endpoint resets the status as well
Updated_EndpointsReset(row, request) ==
    [ row EXCEPT
        !.display_name = IF request.display_name # NULL THEN ValueOf(request.display_name) ELSE @,
        !.client_id = IF request.client_id # NULL THEN ValueOf(request.client_id) ELSE @,
        !.encrypted_client_secret =
            IF request.client_secret # NULL THEN encrypt_token(ValueOf(request.client_secret)) ELSE @,
        !.redirect_uri = IF request.redirect_uri # NULL THEN ValueOf(request.redirect_uri) ELSE @,
        !.tenant_id = IF request.tenant_id # NULL THEN request.tenant_id ELSE @,
        !.authorization_url =
            IF request.authorization_url # NULL THEN ValueOf(request.authorization_url) ELSE @,
        !.token_url = IF request.token_url # NULL THEN ValueOf(request.token_url) ELSE @,
        !.scopes = IF request.scopes # NULL THEN ValueOf(request.scopes) ELSE @,
        !.status = IF \E f \in ResetFields \cup {"authorization_url", "token_url"} :
                         request[f] # NULL
                   THEN "pending" ELSE @ ]

\* the row after the UPDATE
Updated(row, request) ==
    [ row EXCEPT
        !.display_name = IF request.display_name # NULL THEN ValueOf(request.display_name) ELSE @,
        !.client_id = IF request.client_id # NULL THEN ValueOf(request.client_id) ELSE @,
        !.encrypted_client_secret =
            IF request.client_secret # NULL THEN encrypt_token(ValueOf(request.client_secret)) ELSE @,
        !.redirect_uri = IF request.redirect_uri # NULL THEN ValueOf(request.redirect_uri) ELSE @,
        !.tenant_id = IF request.tenant_id # NULL THEN request.tenant_id ELSE @,
        !.authorization_url =
            IF request.authorization_url # NULL THEN ValueOf(request.authorization_url) ELSE @,
        !.token_url = IF request.token_url # NULL THEN ValueOf(request.token_url) ELSE @,
        !.scopes = IF request.scopes # NULL THEN ValueOf(request.scopes) ELSE @,
        !.status = IF \E f \in ResetFields : request[f] # NULL THEN "pending" ELSE @ ]

\* update_credential: 400 without a field; the UPDATE ... RETURNING; every
\* exception of the try block, the 404 of a missing row included, is caught
\* by `except Exception` and answered 500 after a rollback
UpdateCredentialRow ==
    /\ areq.op = "none"
    /\ \E request \in UpdateRequests :
          LET updates == SetClause(request)
          IN  IF updates = <<>>
              THEN /\ areq' = [op |-> "update", status |-> 400, request |-> request]
                   /\ UNCHANGED cred
              ELSE IF MultipleAssignments(updates) \/ cred.status = "deleted"
              THEN /\ areq' = [op |-> "update", status |-> 500, request |-> request]
                   /\ UNCHANGED cred
              ELSE /\ areq' = [op |-> "update", status |-> 200, request |-> request]
                   /\ cred' = Updated(cred, request)
    /\ UNCHANGED adminFrame

\* delete_credential: the row goes, and its tokens with it (CASCADE)
DeleteCredentialRow ==
    /\ areq.op = "none"
    /\ cred.status # "deleted"
    /\ cred' = NoCredential
    /\ tokens' = NoTokens
    /\ areq' = [op |-> "delete", status |-> 204]
    /\ UNCHANGED <<events, workerVars, ingestVars, authVars, subsVars, procVars, otpVars,
                   now, cache, issued, cpc, call, reply, result>>

\* the response is sent
AdminReturns ==
    /\ areq.op # "none"
    /\ areq' = NoAdminRequest
    /\ UNCHANGED <<cred, adminFrame>>

(* ------------------------------------------------------------------ *)
(* OTP challenges: store_otp and validate_otp                           *)
(* ------------------------------------------------------------------ *)

Validators == 1..NumValidators
Otps == {"111111", "222222"}

\* bcrypt: checkpw accepts the password that was hashed and no other
hash_otp(otp) == <<"bcrypt", otp>>
verify_otp_hash(otp, otp_hash) == otp_hash = hash_otp(otp)

otpFrame == <<events, workerVars, ingestVars, tokenVars, authVars, subsVars, adminVars,
              procVars>>

NoValidation == [pc |-> "idle", otp |-> "", challenge_id |-> 0, attempts |-> 0,
                 branch |-> "", success |-> FALSE, error |-> ""]

\* the row of the INSERT: attempts 0 and status 'sent' by the column
\* defaults; `approvals` is history, the validate_otp calls that returned
\* True for the row
NewChallenge(otp) ==
    [ code_hash |-> hash_otp(otp), expires_at |-> now + OTP_EXPIRY_MINUTES,
      max_attempts |-> OTP_MAX_ATTEMPTS, attempts |-> 0, status |-> "sent",
      approvals |-> 0 ]

\* store_otp: one transaction cancels the user's sent challenges and inserts
\* the new one. (A concurrent store_otp whose INSERT meets the unique index
\* otp_one_active_per_user raises and rolls back: no change.)
StoreOtp ==
    /\ Len(challenges) < NumChallenges
    /\ \E otp \in Otps :
          challenges' =
              Append([i \in DOMAIN challenges |->
                         IF challenges[i].status = "sent"
                         THEN [challenges[i] EXCEPT !.status = "canceled"]
                         ELSE challenges[i]],
                     NewChallenge(otp))
    /\ UNCHANGED <<validation, otpFrame>>

\* WHERE user_id = %s AND status = 'sent' ORDER BY sent_at DESC LIMIT 1:
\* the place of the row, 0 when there is none
ActiveChallenge ==
    LET sent == { i \in DOMAIN challenges : challenges[i].status = "sent" }
    IN  IF sent = {} THEN 0 ELSE CHOOSE i \in sent : \A j \in sent : j <= i

\* what validate_otp decides from the row it read
Branch(row, otp) ==
    IF now > row.expires_at THEN "expired"
    ELSE IF row.attempts >= row.max_attempts THEN "denied"
    ELSE IF ~verify_otp_hash(otp, row.code_hash) THEN "invalid"
    ELSE "approved"

\* validate_otp, the SELECT: no row ends the call; otherwise the call goes
\* on with the values of the row as it read them
ValidateSelect(v) ==
    /\ validation[v].pc = "idle"
    /\ \E otp \in Otps :
          LET id == ActiveChallenge
          IN  IF id = 0
              THEN validation' = [validation EXCEPT ![v] =
                       [NoValidation EXCEPT !.pc = "done", !.otp = otp,
                                            !.error = "No active OTP found for this user"]]
              ELSE validation' = [validation EXCEPT ![v] =
                       [NoValidation EXCEPT !.pc = "update", !.otp = otp,
                                            !.challenge_id = id,
                                            !.attempts = challenges[id].attempts,
                                            !.branch = Branch(challenges[id], otp)]]
    /\ UNCHANGED <<challenges, otpFrame>>

Finished(v, success, error) ==
    validation' = [validation EXCEPT ![v].pc = "done", ![v].success = success,
                                     ![v].error = error]

\* validate_otp, the UPDATE ... WHERE id = %s of the branch taken, and its
\* commit; the row is the one of the id whatever its status is by now.
\* attempts + 1 is computed from the row as it is at the UPDATE, and the
\* table's CHECK (attempts BETWEEN 0 AND max_attempts) makes the statement
\* raise when the sum is above max_attempts
ValidateUpdate(v) ==
    /\ validation[v].pc = "update"
    /\ LET id == validation[v].challenge_id
           row == challenges[id]
       IN  CASE validation[v].branch = "expired" ->
                   /\ challenges' = [challenges EXCEPT ![id].status = "expired"]
                   /\ Finished(v, FALSE, "OTP has expired")
             [] validation[v].branch = "denied" ->
                   /\ challenges' = [challenges EXCEPT ![id].status = "denied"]
                   /\ Finished(v, FALSE, "Maximum attempts exceeded")
             [] validation[v].branch = "invalid" ->
                   IF row.attempts + 1 > row.max_attempts
                   THEN /\ UNCHANGED challenges
                        /\ Finished(v, FALSE, "CheckViolation")
                   ELSE /\ challenges' = [challenges EXCEPT ![id].attempts = @ + 1]
                        /\ Finished(v, FALSE, "Invalid OTP")
             [] validation[v].branch = "approved" ->
                   /\ challenges' = [challenges EXCEPT ![id].status = "approved",
                                                       ![id].approvals = @ + 1]
                   /\ Finished(v, TRUE, "")
    /\ UNCHANGED otpFrame

\* the call has returned
ValidateReturns(v) ==
    /\ validation[v].pc = "done"
    /\ validation' = [validation EXCEPT ![v] = NoValidation]
    /\ UNCHANGED <<challenges, otpFrame>>

\* time passes for the challenges
OtpTick ==
    /\ Tick
    /\ UNCHANGED <<events, workerVars, ingestVars, authVars, subsVars, adminVars, procVars,
                   otpVars>>

(* ------------------------------------------------------------------ *)
(* Token broker: properties                                             *)
(* ------------------------------------------------------------------ *)
\* C10: every token that get_credential_token returns (from the cache or from
\* the endpoint) expires after the time of the call, and every token the
\* endpoint returns expires after the time the endpoint was called.
C10_ExpiryInFuture ==
    \A c \in Callers :
        /\ (cpc[c] = "done" /\ result[c].ok) =>
               /\ result[c].expires_at # NULL
               /\ TimeOf(result[c].expires_at) > call[c].callTime
        /\ cpc[c] = "reply" =>
               /\ reply[c].expires_at # NULL
               /\ TimeOf(reply[c].expires_at) > call[c].vendTime

\* C11: when the endpoint finds the stored access token expired or within
\* the margin and no refresh token stored, the call fails with 401 "Token
\* expired and no refresh token available": no token is returned, the
\* provider issues nothing and the stored pair stays as it is.
C11_NoRefreshTokenFails ==
    [][ \A c \in Callers :
          ( /\ cpc[c] = "vend" /\ cpc'[c] # "vend"
            /\ cred.status = "connected" /\ tokens.access # 0
            /\ tokens.refresh = ""
            /\ TimeOf(tokens.expires_at) - now < SAFETY_MARGIN )
          => /\ cpc'[c] = "done"
             /\ ~result'[c].ok
             /\ result'[c].status = 401
             /\ result'[c].detail = "Token expired and no refresh token available"
             /\ reply'[c] = NoReply
             /\ tokens' = tokens /\ issued' = issued /\ cache' = cache ]_vars

\* a call has failed for want of a refresh token, the stored token being
\* past its expiry
C11_Witness ==
    \E c \in Callers :
        /\ cpc[c] = "done" /\ ~result[c].ok
        /\ result[c].error # "none" /\ result[c].error # "TypeError"
        /\ result[c].status = 401
        /\ tokens.access # 0 /\ tokens.refresh = ""
        /\ TimeOf(tokens.expires_at) < now

\* C12: while the credential is pending (its client secret was updated and
\* no authorization has completed since), a get_credential_token call that
\* is answered, from the cache or by the endpoint, fails; the endpoint
\* answers 404 "Credential not found or not connected".
C12_PendingCallsFail ==
    [][ \A c \in Callers :
          cred.status = "pending" =>
             /\ (cpc[c] = "idle" /\ cpc'[c] = "done") => ~result'[c].ok
             /\ (cpc[c] = "vend" /\ cpc'[c] # "vend") =>
                    /\ cpc'[c] = "done"
                    /\ ~result'[c].ok
                    /\ result'[c].status = 404 ]_vars

\* C13: when the provider rejects the refresh, the call fails with the
\* upstream error (502) and the credential's status is error.
C13_RefreshRejectedMarksError ==
    [][ \A c \in Callers :
          (cpc[c] = "refresh" /\ cpc'[c] = "done" /\ ~result'[c].ok) =>
             /\ result'[c].status = 502
             /\ cred'.status = "error" ]_vars

\* C17: a connected credential has a token pair whose expiry is not in the
\* past or that holds a refresh token.
C17_ConnectedHasUsableTokens ==
    cred.status = "connected" =>
        /\ tokens.access # 0
        /\ \/ TimeOf(tokens.expires_at) >= now
           \/ tokens.refresh # ""

\* C22: the response of the token-vending endpoint has no refresh token
\* field, and a lookup that needs no refresh answers what it would answer
\* with any other stored refresh token (or none).
C22_NoRefreshTokenInResponse ==
    [][ \A c \in Callers :
          /\ (cpc[c] = "vend" /\ cpc'[c] = "reply")
                => /\ DOMAIN reply'[c] = {"access_token", "expires_at"}
                   /\ \A rt \in RefreshTokens :
                         reply'[c] = VendResponse([tokens EXCEPT !.refresh = rt])
          /\ (cpc[c] = "refresh" /\ cpc'[c] = "reply")
                => DOMAIN reply'[c] = {"access_token", "expires_at"} ]_vars

\* a lookup that needed no refresh has answered while a refresh token is stored
C22_Witness ==
    \E c \in Callers :
        /\ cpc[c] = "reply"
        /\ tokens.refresh = "rt"
        /\ ~NeedsRefresh(tokens.expires_at, call[c].vendTime)
        /\ reply[c].access_token = tokens.access

SuppliedFields(request) == { f \in DOMAIN request : request[f] # NULL }

\* the column of the row holds what the request supplied for the field
Applied(row, request, f) ==
    IF f = "client_secret" THEN row.encrypted_client_secret = encrypt_token(ValueOf(request[f]))
    ELSE IF f = "tenant_id" THEN row.tenant_id = request[f]
    ELSE row[f] = ValueOf(request[f])

\* C23: an update of an existing credential with one or more fields is
\* answered 200, the row holds every supplied field, and its status is
\* pending when a field of the OAuth configuration was among them, also when
\* several were.
C23_UpdateAppliesAndResets ==
    [][ (/\ areq.op = "none" /\ areq'.op = "update"
         /\ cred.status # "deleted"
         /\ SuppliedFields(areq'.request) # {})
        => /\ areq'.status = 200
           /\ \A f \in SuppliedFields(areq'.request) : Applied(cred', areq'.request, f)
           /\ (SuppliedFields(areq'.request) \cap ResetFields # {}) => cred'.status = "pending"
      ]_vars

\* the validate_otp call of v returns in this step, for the challenge id
ReturnsFor(v, id) ==
    /\ validation[v].pc = "update"
    /\ validation'[v].pc = "done"
    /\ validation[v].challenge_id = id

AttemptsWithinMax == \A i \in DOMAIN challenges : challenges[i].attempts <= challenges[i].max_attempts

\* C38: the failed attempts recorded for a challenge never exceed its
\* max_attempts, and a validate_otp call with the correct code that
\* completes once they have reached max_attempts is rejected and leaves the
\* challenge denied (expired, when it found it past its expiry), also with
\* concurrent calls.
C38_AttemptsCeilingRejects ==
    /\ []AttemptsWithinMax
    /\ [][ \A v \in Validators : \A id \in DOMAIN challenges :
             (/\ ReturnsFor(v, id)
              /\ verify_otp_hash(validation[v].otp, challenges[id].code_hash)
              /\ challenges[id].attempts = challenges[id].max_attempts)
             => /\ ~validation'[v].success
                /\ challenges'[id].status \in {"denied", "expired"}
       ]_vars

AtMostOneSent == Cardinality({ i \in DOMAIN challenges : challenges[i].status = "sent" }) <= 1

\* C39: a challenge is approved at most once (no later or concurrent
\* validate_otp call succeeds against a challenge that a call has already
\* succeeded against), a user has at most one challenge in status sent,
\* and store_otp cancels every earlier sent challenge.
C39_ApprovedOnceOneSent ==
    /\ [](AtMostOneSent /\ \A i \in DOMAIN challenges : challenges[i].approvals <= 1)
    /\ [][ Len(challenges') > Len(challenges)
           => \A i \in DOMAIN challenges : challenges'[i].status # "sent" ]_vars

NameAndEndpoints == {"display_name", "authorization_url", "token_url"}

\* C37: an update that supplies only display name, authorization URL or
\* token URL leaves the credential's status, its connected account and its
\* token pair as they were.
C37_NameAndEndpointsKeepConnection ==
    [][ (/\ areq.op = "none" /\ areq'.op = "update" /\ areq'.status = 200
         /\ SuppliedFields(areq'.request) \subseteq NameAndEndpoints)
        => /\ cred'.status = cred.status
           /\ cred'.connected_email = cred.connected_email
           /\ tokens' = tokens
      ]_vars

C37_Witness ==
    /\ areq.op = "update" /\ areq.status = 200
    /\ SuppliedFields(areq.request) = NameAndEndpoints
    /\ cred.status = "connected"
    /\ cred.connected_email # NULL
    /\ cred.display_name = "Acme 2"
    /\ cred.token_url = "https://idp2.example/token"
    /\ tokens = ConnectedTokens

\* C24: a credential that is created is stored in status pending; each of
\* authorization_url, token_url and scopes holds the request's field when
\* the request has one and the provider's default (for ms365: the common or
\* the tenant's endpoints and the four Graph scopes) when it has none.
C24_DefaultsUnlessExplicit ==
    [][ (areq.op = "none" /\ areq'.op = "create" /\ areq'.status = 201)
        => LET request == areq'.request
               defaults == get_provider_defaults(request.provider, request.tenant_id)
           IN  /\ cred'.status = "pending"
               /\ cred'.provider = request.provider
               /\ cred'.authorization_url =
                      IF request.authorization_url # NULL
                      THEN ValueOf(request.authorization_url) ELSE defaults.authorization_url
               /\ cred'.token_url =
                      IF request.token_url # NULL
                      THEN ValueOf(request.token_url) ELSE defaults.token_url
               /\ cred'.scopes =
                      IF request.scopes # NULL
                      THEN ValueOf(request.scopes) ELSE defaults.scopes
      ]_vars

\* C26: a call returns a token without a request to the provider only when
\* force_refresh is false and the token it returns (the API service's cache
\* entry, or the stored token the endpoint answers with) expires more than
\* the safety margin from now; every other call goes to the provider with the
\* stored refresh token.
C26_RefreshUnlessCached ==
    [][ \A c \in Callers :
          /\ (cpc[c] = "idle" /\ cpc'[c] = "done" /\ result'[c].ok)
                => ~call'[c].force_refresh /\ CacheValid(cache, now)
          /\ (cpc[c] = "vend" /\ cpc'[c] = "reply")
                => ~call[c].force_refresh /\ ~NeedsRefresh(tokens.expires_at, now)
          /\ (cpc[c] = "vend" /\ cpc'[c] = "refresh") => tokens.refresh # ""
      ]_vars

\* C27: after a refresh that succeeded the stored access token and expiry
\* are those of the provider's response, the stored refresh token is the
\* one the response carried when it carried one, the endpoint answers with
\* what it stored, and the caller caches and gets that same token.
C27_RefreshPersisted ==
    [][ \A c \in Callers :
          /\ (cpc[c] = "refresh" /\ cpc'[c] = "reply")
                => LET new_tokens == ValueOf(call'[c].new_tokens)
                   IN  /\ tokens'.access = new_tokens.access_token
                       /\ tokens'.expires_at = At(now + new_tokens.expires_in)
                       /\ new_tokens.refresh_token # ""
                             => tokens'.refresh = new_tokens.refresh_token
                       /\ reply'[c] = VendResponse(tokens')
          /\ (cpc[c] = "reply" /\ cpc'[c] = "done")
                => /\ cache' = reply[c]
                   /\ result'[c].ok
                   /\ result'[c].access_token = reply[c].access_token
      ]_vars

\* C28: when the refreshes of two calls overlap, every call the provider
\* answered returns the token the provider gave it; the stored access token
\* and expiry change only by the UPDATE of one refresh, which writes both
\* from that refresh's response, so that they are always the pair of the
\* refresh that wrote last and never the token of one with the expiry of
\* the other.
C28_LastRefreshWins ==
    [][ /\ \A c \in Callers :
              /\ (cpc[c] = "update" /\ cpc'[c] = "reply" /\ tokens.access # 0)
                    => LET new_tokens == ValueOf(call[c].new_tokens)
                       IN  /\ tokens'.access = new_tokens.access_token
                           /\ tokens'.expires_at = At(now + new_tokens.expires_in)
                           /\ reply'[c] = VendResponse(tokens')
              /\ (cpc'[c] = "done" /\ cpc[c] # "done" /\ call[c].new_tokens # NULL)
                    => /\ result'[c].ok
                       /\ result'[c].access_token
                              = ValueOf(call[c].new_tokens).access_token
        /\ (tokens'.access # tokens.access \/ tokens'.expires_at # tokens.expires_at)
              => \/ tokens' = NoTokens
                 \/ \E c \in Callers : cpc[c] = "update" /\ cpc'[c] = "reply"
      ]_vars

\* both calls refreshed at once and returned their tokens; the refresh that
\* was answered first wrote last, and its pair is the stored one
C28_Witness ==
    /\ \A c \in Callers : cpc[c] = "done" /\ result[c].ok /\ call[c].new_tokens # NULL
    /\ result[1].access_token = 1
    /\ result[2].access_token = 2
    /\ ValueOf(call[1].new_tokens).expires_in # ValueOf(call[2].new_tokens).expires_in
    /\ tokens.access = 1
    /\ tokens.expires_at = result[1].expires_at

\* C29: a get_credential_token call that is answered from the cache has an
\* outcome the endpoint could have given the same call at that moment: it
\* returns a token, and the endpoint would have returned one too.
C29_CacheTransparent ==
    [][ \A c \in Callers :
          (cpc[c] = "idle" /\ cpc'[c] = "done")
             => /\ result'[c].ok
                /\ 200 \in EndpointOutcomes ]_vars

\* C30: while a poller works on a 'deleted' event it requests no token and
\* makes no Graph call, and it leaves the event completed with the
\* synthesized 'deleted' record, whatever the status of the credential.
C30_DeletedWithoutProvider ==
    [][ \A p \in Pollers :
          (ppc[p] = "work" /\ Current(p).event_type = "deleted")
             => /\ fetch[p] = "none" /\ fetch'[p] = "none"
                /\ (ppc'[p] # "work" \/ pos'[p] # pos[p])
                      => LET id == Current(p).id
                         IN  /\ events'[id].status = "completed"
                             /\ events'[id].retry_count = events[id].retry_count
                             /\ events'[id].normalized
                                   = DeletedRecord("deleted", events[id].external_resource_id)
      ]_vars

\* the credential is not connected: its 'deleted' event is completed with the
\* synthesized record, its 'created' event failed an attempt on the token
C30_Witness ==
    /\ cred.status # "connected"
    /\ events[1].event_type = "deleted"
    /\ events[1].status = "completed"
    /\ events[1].normalized = DeletedRecord("deleted", "r1")
    /\ events[2].event_type = "created"
    /\ events[2].retry_count > 0

\* C31: no step of the webhook handler adds or removes a subscription, and
\* of a subscription's row it changes last_notification_at at most: id,
\* external id, credential, resource path, status and expiry stay.
C31_IngestorTouchesTimestampOnly ==
    [][ /\ DOMAIN subscriptions' = DOMAIN subscriptions
        /\ \A s \in DOMAIN subscriptions :
              [subscriptions'[s] EXCEPT !.notified = subscriptions[s].notified]
                  = subscriptions[s]
      ]_vars

\* a batch was committed: the subscription's timestamp is written and two
\* events are stored
C31_Witness ==
    /\ subscriptions["s1"].notified
    /\ Len(events) = 2
    /\ \E h \in Handlers : hpc[h] = "done" /\ resp[h].kind = "summary"

\* C32: when a cycle of process_pending_events has returned, none of the
\* events it selected, and so marked processing, is in status processing.
C32_NothingLeftProcessing ==
    \A p \in Pollers :
        ppc[p] = "returned" =>
            \A i \in 1..Len(batch[p]) :
                events[batch[p][i].id].status # "processing"

\* C33: with concurrent pollers the retry count of every event stays
\* between 0 and MAX_RETRY_ATTEMPTS; every event a SELECT returns has a
\* retry count below the ceiling; and an event whose retry count is at the
\* ceiling is not taken into processing any more and keeps that count.
C33_CeilingIsFinal ==
    /\ [](\A id \in DOMAIN events : events[id].retry_count \in 0..MAX_RETRY_ATTEMPTS)
    /\ [][ /\ \A p \in Pollers :
                (ppc[p] = "idle" /\ ppc'[p] = "mark") =>
                   \A i \in 1..Len(batch'[p]) :
                       events[batch'[p][i].id].retry_count < MAX_RETRY_ATTEMPTS
           /\ \A id \in DOMAIN events :
                events[id].retry_count = MAX_RETRY_ATTEMPTS =>
                   /\ events'[id].retry_count = MAX_RETRY_ATTEMPTS
                   /\ \A p \in Pollers :
                        (ppc[p] = "mark" /\ ppc'[p] = "work") => Current(p).id # id
         ]_vars

Attempted(p) == stats[p].processed + stats[p].failed + stats[p].skipped

C35_PayloadFollowsProcessing ==
    \A id \in DOMAIN events :
        /\ events[id].status = "completed" => events[id].normalized # NoPayload
        /\ id \notin marked =>
              /\ events[id].normalized = NoPayload
              /\ events[id].retry_count = 0

\* C36: a response with summary counts is given by the step that commits,
\* its stored count is the number of event rows that commit adds to the
\* table, and stored + duplicates does not exceed total.
C36_StoredCountIsCommitted ==
    [][ \A h \in Handlers :
          (resp'[h].kind = "summary" /\ resp[h].kind # "summary") =>
             /\ resp'[h].stored = Len(events') - Len(events)
             /\ \A i \in 1..Len(events) : events'[i] = events[i]
             /\ resp'[h].stored + resp'[h].duplicates <= resp'[h].total
             /\ resp'[h].total = Total(h)
      ]_vars

\* a batch of two notifications, one of them of an unknown subscription:
\* one row is committed and the summary says stored 1 of total 2
C36_Witness ==
    \E h \in Handlers :
        /\ hpc[h] = "done"
        /\ resp[h].kind = "summary"
        /\ resp[h].stored = 1 /\ resp[h].total = 2
        /\ Len(events) = 1

\* C14: no validation has accepted a state that was never minted, is past
\* its expiry, was accepted before or was minted for another provider than
\* the one named; a state is accepted at most once and is gone from
\* _oauth_states once accepted; a callback whose state is refused goes no
\* further than the 400.
C14_StateOneTimeUse ==
    /\ ~wrongly
    /\ \A state \in StateTokens :
          /\ accepted[state] <= 1
          /\ accepted[state] = 1 => state \notin DOMAIN states
    /\ capc \notin {"idle", "done"} =>
          /\ cb.identifier # NoIdentifier
          /\ accepted[cb.state] = 1
    /\ (capc = "done" /\ cb.identifier = NoIdentifier /\ cb.outcome # "redirect: error") =>
          cb.outcome = "400: Invalid or expired state"

\* a state that was accepted is presented again before its expiry, and the
\* callback answers 400
C14_Witness ==
    /\ capc = "done"
    /\ cb.outcome = "400: Invalid or expired state"
    /\ cb.state \in DOMAIN minted
    /\ accepted[cb.state] = 1
    /\ now <= minted[cb.state].expires_at

\* C15 (as stated): a callback that fails after its state was validated
\* ends with the credential in status error and the failure detail stored.
C15_FailureEndsInError ==
    [][ (capc = "failed" /\ capc' = "done") =>
            /\ cred'.status = "error"
            /\ cred'.error_message = cb.detail ]_vars

\* C15 (amended): a callback that fails after its state was validated
\* answers with the error redirect; when its UPDATE of the credential is
\* applied (the row exists and the statement does not raise) the credential
\* is in status error with the failure detail, otherwise the credential is
\* as it was; and no step into the failure changes the credential or its
\* tokens (nothing of the failed attempt is committed).
C15_FailureMarksErrorIfWritten ==
    [][ /\ (capc = "failed" /\ capc' = "done") =>
              /\ cb'.outcome = "redirect: error"
              /\ IF cb'.marked
                 THEN cred'.status = "error" /\ cred'.error_message = cb.detail
                 ELSE cred' = cred
        /\ (capc # "failed" /\ capc' = "failed") =>
              /\ cred' = cred
              /\ tokens' = tokens ]_vars

\* a re-authorization of a connected credential failed at token
\* persistence, and the credential is in status error with that detail
C15_Witness ==
    /\ capc = "done" /\ cb.marked
    /\ cb.detail = "Failed to store tokens"
    /\ cred.status = "error" /\ cred.error_message = cb.detail
    /\ tokens.access # 0

CredentialEdges ==
    { <<"pending", "connected">>, <<"connected", "error">>, <<"error", "pending">>,
      <<"error", "connected">> }

Done(h) == hpc[h] = "done"
IsBatch(h) == req[h].body.kind = "batch"
Known(n) == n.subscriptionId \in DOMAIN subscriptions /\ n.subscriptionId # "" /\ n.resourceId # ""
KeyOf(n) ==
    IdempotencyKey(subscriptions[n.subscriptionId].credential_id, n.subscriptionId, n.resourceId)
RowsWithKey(key) == { id \in DOMAIN events : events[id].idempotency_key = key }

\* C2: a call that posts one notification whose event an earlier call has
\* stored answers with duplicates = 1 and stored = 0, and exactly one event
\* of that notification is stored (no storage fault involved).
C2_SecondPostReportsDuplicate ==
    \A h \in Handlers :
        ( /\ Done(h) /\ ~Truthy(req[h].token) /\ IsBatch(h)
          /\ Len(req[h].body.value) = 1
          /\ Known(req[h].body.value[1])
          /\ KeyOf(req[h].body.value[1]) \in hist[h].pre
          /\ hist[h].raised = {} /\ ~hist[h].other )
        => /\ resp[h].kind = "summary"
           /\ resp[h].duplicates = 1
           /\ resp[h].stored = 0
           /\ Cardinality(RowsWithKey(KeyOf(req[h].body.value[1]))) = 1

\* C6: no two stored events share an idempotency key, nor a (credential,
\* subscription, resource) triple, whatever their change types.
C6_IdempotencyKeyUnique ==
    \A i, j \in DOMAIN events :
        i # j =>
            /\ events[i].idempotency_key # events[j].idempotency_key
            /\ <<events[i].credential_id, events[i].subscription_id, events[i].external_resource_id>>
                 # <<events[j].credential_id, events[j].subscription_id, events[j].external_resource_id>>

\* two invocations that both arrived before the event existed have ingested
\* the same notification, and one event is stored
C6_Witness ==
    \E h, g \in Handlers :
        /\ h # g /\ Done(h) /\ Done(g) /\ IsBatch(h) /\ IsBatch(g)
        /\ ~Truthy(req[h].token) /\ ~Truthy(req[g].token)
        /\ Len(req[h].body.value) = 1 /\ Known(req[h].body.value[1])
        /\ Len(req[g].body.value) = 1 /\ Known(req[g].body.value[1])
        /\ KeyOf(req[h].body.value[1]) = KeyOf(req[g].body.value[1])
        /\ req[h].body.value[1].changeType # req[g].body.value[1].changeType
        /\ KeyOf(req[h].body.value[1]) \notin hist[h].pre \cup hist[g].pre
        /\ hist[h].raised = {} /\ hist[g].raised = {} /\ ~hist[h].other /\ ~hist[g].other
        /\ Cardinality(RowsWithKey(KeyOf(req[h].body.value[1]))) = 1

\* C7: when the handler returns, every notification of the batch that belongs
\* to a known subscription and whose own insert did not raise has its event
\* stored, whatever happened to the other notifications of the batch.
C7_OtherNotificationsRecorded ==
    \A h \in Handlers :
        (Done(h) /\ ~Truthy(req[h].token) /\ IsBatch(h) /\ ~hist[h].other)
        => \A i \in 1..Len(req[h].body.value) :
              (Known(req[h].body.value[i]) /\ i \notin hist[h].raised)
              => \E id \in RowsWithKey(KeyOf(req[h].body.value[i])) :
                     events[id].status = "pending"

C9_TokenEchoed ==
    \A h \in Handlers :
        (Done(h) /\ req[h].token # NoToken) => resp[h] = ValidationResponse(req[h].token)

KnownNotes(h) == { i \in 1..Total(h) : Known(req[h].body.value[i]) }

\* C19: a notification of a subscription that is not in the table is skipped:
\* the step that looks it up stores nothing and counts nothing and goes on to
\* the next notification (or to the commit after the last one); a call that
\* ends with the summary has counted exactly the notifications of known
\* subscriptions and has stored the event of each of them.
C19_UnknownSkipped ==
    /\ [][ \A h \in Handlers :
              ( /\ hpc[h] = "lookup"
                /\ ~Known(Note(h))
                /\ <<hpc'[h], hidx'[h]>> # <<hpc[h], hidx[h]>> )
              => /\ counts' = counts /\ tx' = tx /\ events' = events
                 /\ resp'[h] = NoResponse
                 /\ IF hidx[h] < Total(h)
                    THEN hpc'[h] = "lookup" /\ hidx'[h] = hidx[h] + 1
                    ELSE hpc'[h] = "commit" ]_vars
    /\ [](\A h \in Handlers :
              (Done(h) /\ resp[h].kind = "summary")
              => /\ resp[h].stored + resp[h].duplicates = Cardinality(KnownNotes(h))
                 /\ \A i \in KnownNotes(h) : RowsWithKey(KeyOf(req[h].body.value[i])) # {})

\* a batch of an unknown subscription's notification followed by a known
\* one was answered with the summary
C19_Witness ==
    \E h \in Handlers :
        /\ Done(h) /\ resp[h].kind = "summary"
        /\ Total(h) = 2
        /\ ~Known(req[h].body.value[1]) /\ Known(req[h].body.value[2])
        /\ resp[h].stored = 1 /\ resp[h].duplicates = 0

(* ------------------------------------------------------------------ *)
(* Subscription management: properties                                  *)
(* ------------------------------------------------------------------ *)
\* the provider call of request r fails in this step
ProviderCallFails(r) ==
    /\ dpc[r] = "call" /\ dpc'[r] = "done"

\* C20: delete removes the subscription upstream first and locally second.
\* The step in which the provider call fails leaves the table as it is and
\* ends the request with 400; a row is only ever removed by a request whose
\* provider call has returned; and no subscription whose row was deleted is
\* still registered upstream.
C20_UpstreamFirst ==
    /\ [][ \A r \in Requesters :
              /\ ProviderCallFails(r)
                    => subscriptions' = subscriptions /\ dreq'[r].status = 400
              /\ (dreq[r].op = "delete" /\ dpc[r] # "remove" /\ dpc'[r] # dpc[r])
                    => subscriptions' = subscriptions ]_vars
    /\ [](removed \cap upstream = {})

\* a delete whose provider call failed has returned 400 and the row it was
\* to delete is there, still registered upstream
C20_Witness ==
    \E r \in Requesters :
        /\ dpc[r] = "done" /\ dreq[r].op = "delete" /\ dreq[r].status = 400
        /\ dreq[r].ext \in DOMAIN subscriptions
        /\ subscriptions[dreq[r].ext].id = dreq[r].id
        /\ dreq[r].ext \in upstream

\* the rows whose expiry or status differ before and after the step
RowsRenewed ==
    { s \in DOMAIN subscriptions \cap DOMAIN subscriptions' :
        \/ subscriptions'[s].expires_at # subscriptions[s].expires_at
        \/ subscriptions'[s].status # subscriptions[s].status }

\* C21: renew changes the row only after the provider call succeeded. A
\* renew of an id that has no row ends with 404 in the step of its SELECT,
\* without a provider call; the step in which the provider call fails ends
\* the request with 400 and leaves every row as it is; and the expiry and
\* status of a row change only in the UPDATE of a renew whose provider call
\* has returned, to the expiry the provider answered.
C21_RenewAfterProvider ==
    [][ /\ \A r \in Requesters :
              /\ (dpc[r] = "idle" /\ dreq'[r].op = "renew" /\ RowsWithId(dreq'[r].id) = {})
                    => /\ dpc'[r] = "done" /\ dreq'[r].status = 404
                       /\ subscriptions' = subscriptions
              /\ (dpc[r] = "rcall" /\ dpc'[r] = "done")
                    => subscriptions' = subscriptions /\ dreq'[r].status = 400
        /\ \A s \in RowsRenewed :
              \E r \in Requesters :
                  /\ dpc[r] = "update" /\ dpc'[r] = "done" /\ dreq[r].op = "renew"
                  /\ subscriptions[s].id = dreq[r].id
                  /\ dreq[r].expires_at \in Expiries
                  /\ subscriptions'[s].expires_at = dreq[r].expires_at ]_vars

\* a renew whose provider call failed has returned 400 and the row keeps the
\* expiry an earlier renew gave it
C21_Witness ==
    \E r \in Requesters :
        /\ dpc[r] = "done" /\ dreq[r].op = "renew" /\ dreq[r].status = 400
        /\ dreq[r].ext \in DOMAIN subscriptions
        /\ subscriptions[dreq[r].ext].expires_at = 1

(* ------------------------------------------------------------------ *)
(* Event processor: properties                                          *)
(* ------------------------------------------------------------------ *)
Working(p, id) == ppc[p] = "work" /\ Current(p).id = id

\* C1: no event is being processed by two pollers at once: between a
\* poller's mark-processing and its final write no other poller has marked
\* the same event, also for events after the first of a batch.
C1_MarkProcessingExclusive ==
    \A id \in DOMAIN events :
        \A p, q \in Pollers : Working(p, id) /\ Working(q, id) => p = q

\* C3: every failed attempt strictly increases the event's retry count, and
\* an event is failed exactly when its retry count is at the ceiling.
C3_RetryCountAndCeiling ==
    [][ /\ \A p \in Pollers :
              FailEvent(p) =>
                  events'[Current(p).id].retry_count > events[Current(p).id].retry_count
        /\ \A id \in DOMAIN events :
              (events'[id].status = "failed")
                  <=> (events'[id].retry_count >= MAX_RETRY_ATTEMPTS) ]_vars

\* C4 (as stated): an event is failed only by the failure of its fourth attempt.
C4_FailedOnFourthFailure ==
    \A id \in DOMAIN events :
        events[id].status = "failed" => failures[id] = MAX_RETRY_ATTEMPTS + 1

\* C4 (amended): with one poller, an event is failed exactly when its third
\* attempt has failed; after the first and second failure it is not failed
\* (it went back to pending), and there is no fourth failure.
C4_FailedOnThirdFailure ==
    \A id \in DOMAIN events :
        /\ failures[id] <= MAX_RETRY_ATTEMPTS
        /\ events[id].retry_count = failures[id]
        /\ (events[id].status = "failed") <=> (failures[id] = MAX_RETRY_ATTEMPTS)
        /\ (failures[id] < MAX_RETRY_ATTEMPTS /\ ~(\E p \in Pollers : Working(p, id)))
               => events[id].status \in {"pending", "completed"}

C4_Witness ==
    \E id \in DOMAIN events :
        events[id].status = "failed" /\ failures[id] = MAX_RETRY_ATTEMPTS

\* the ids of the batch poller p holds after the step
Selected(p) == { batch'[p][i].id : i \in 1..Len(batch'[p]) }

\* what the SELECT of poller p may take: pending, below the ceiling, and not
\* locked by another poller's open transaction
Selectable(p, id) ==
    /\ events[id].status = "pending"
    /\ events[id].retry_count < MAX_RETRY_ATTEMPTS
    /\ ~LockedByOther(p, id)

\* C25: the SELECT of a poll cycle takes no more than BatchSize events, each
\* of them pending, below the retry ceiling and unlocked at that time, in
\* the order of receipt; an event is left out only if it is not eligible, is
\* locked, or the batch is full with older events.
C25_OldestEligibleFirst ==
    [][ \A p \in Pollers :
          (ppc[p] = "idle" /\ ppc'[p] # "idle")
          => /\ Len(batch'[p]) <= BatchSize
             /\ \A id \in Selected(p) : Selectable(p, id)
             /\ \A i, j \in 1..Len(batch'[p]) : i < j => batch'[p][i].id < batch'[p][j].id
             /\ \A id \in Selected(p) : \A older \in DOMAIN events :
                    (older < id /\ Selectable(p, older)) => older \in Selected(p)
             /\ \A id \in DOMAIN events :
                    (Selectable(p, id) /\ id \notin Selected(p)) => Len(batch'[p]) = BatchSize
      ]_vars

\* a poller holds a full batch of the two oldest events while a third
\* eligible event is left for later, and the other poller, skipping the
\* locked rows, has taken that one
C25_Witness ==
    \E p, q \in Pollers :
        /\ p # q
        /\ ppc[p] = "mark" /\ locks[p] = {1, 2} /\ Len(batch[p]) = BatchSize
        /\ ppc[q] = "mark" /\ locks[q] = {3}

StatusEdges ==
    { <<"pending", "processing">>, <<"processing", "completed">>,
      <<"processing", "pending">>, <<"processing", "failed">> }

\* C5: an event's status changes only along pending->processing,
\* processing->completed, processing->pending and processing->failed.
C5_StatusEdgesOnly ==
    [][ \A id \in DOMAIN events :
            events'[id].status # events[id].status
                => <<events[id].status, events'[id].status>> \in StatusEdges ]_vars

(* ------------------------------------------------------------------ *)
(* Specifications                                                       *)
(* ------------------------------------------------------------------ *)
Subscriptions0 ==
    [s \in {"s1"} |-> [id |-> "sub-1", credential_id |-> "c1", notified |-> FALSE,
                      resource_path |-> "me/mailFolders('inbox')/messages",
                      status |-> "active", expires_at |-> 0]]

IngestIdle ==
    /\ subscriptions = Subscriptions0
    /\ hpc = [h \in Handlers |-> "idle"]
    /\ req = [h \in Handlers |-> NoRequest]
    /\ hidx = [h \in Handlers |-> 0]
    /\ counts = [h \in Handlers |-> ZeroCounts]
    /\ tx = [h \in Handlers |-> EmptyTx]
    /\ resp = [h \in Handlers |-> NoResponse]
    /\ hist = [h \in Handlers |-> NoHist]
    /\ upstream = DOMAIN Subscriptions0
    /\ removed = {}
    /\ dpc = [r \in Requesters |-> "idle"]
    /\ dreq = [r \in Requesters |-> NoSubRequest]
    /\ areq = NoAdminRequest
    /\ fetch = [p \in Pollers |-> "none"]
    /\ stats = [p \in Pollers |-> ZeroStats]
    /\ marked = {}
    /\ challenges = <<>>
    /\ validation = [v \in Validators |-> NoValidation]

AuthIdle ==
    /\ states = <<>>
    /\ minted = <<>>
    /\ accepted = [s \in StateTokens |-> 0]
    /\ wrongly = FALSE
    /\ capc = "idle"
    /\ cb = NoCallback

TokenIdle ==
    /\ now = 0
    /\ cred = [status |-> "pending", provider |-> "ms365", error_message |-> ""]
    /\ tokens = NoTokens
    /\ cache = NoCache
    /\ issued = 0
    /\ cpc = [c \in Callers |-> "idle"]
    /\ call = [c \in Callers |-> NoCall]
    /\ reply = [c \in Callers |-> NoReply]
    /\ result = [c \in Callers |-> NoResult]
    /\ AuthIdle

WorkerIdle ==
    /\ locks = [p \in Pollers |-> {}]
    /\ ppc = [p \in Pollers |-> "idle"]
    /\ batch = [p \in Pollers |-> <<>>]
    /\ pos = [p \in Pollers |-> 0]
    /\ failures = [id \in EventIds |-> 0]

InitWorker ==
    /\ \E types \in [EventIds -> {"created", "deleted"}] :
           events = [id \in EventIds |->
                        NewEvent("c1", "sub-1", "s1", types[id], ResourceOf(id))]
    /\ locks = [p \in Pollers |-> {}]
    /\ ppc = [p \in Pollers |-> "idle"]
    /\ batch = [p \in Pollers |-> <<>>]
    /\ pos = [p \in Pollers |-> 0]
    /\ failures = [id \in EventIds |-> 0]
    /\ IngestIdle
    /\ TokenIdle

PollerStep(p) ==
    \/ SelectPending(p)
    \/ MarkProcessing(p)
    \/ CompleteEvent(p)
    \/ FailEvent(p)
    \/ NextCycle(p)

NextWorker ==
    \/ \E p \in Pollers : PollerStep(p)
    \/ \E id \in EventIds : SingleEventCompleted(id)

SpecWorker == InitWorker /\ [][NextWorker]_vars

\* three events wait for two pollers that take batches of two
InitSelect ==
    /\ events = [id \in 1..NumQueued |->
                    NewEvent("c1", "sub-1", "s1", "created", ResourceOf(id))]
    /\ locks = [p \in Pollers |-> {}]
    /\ ppc = [p \in Pollers |-> "idle"]
    /\ batch = [p \in Pollers |-> <<>>]
    /\ pos = [p \in Pollers |-> 0]
    /\ failures = [id \in 1..NumQueued |-> 0]
    /\ IngestIdle
    /\ TokenIdle

NextSelect == \E p \in Pollers : PollerStep(p)

SpecSelect == InitSelect /\ [][NextSelect]_vars

\* two queued events, deletions among them, of a credential that is pending,
\* connected or in error; its tokens are stored and not about to expire
InitProcess ==
    /\ \E types \in [EventIds -> {"created", "deleted"}] :
           events = [id \in EventIds |->
                        NewEvent("c1", "sub-1", "s1", types[id], ResourceOf(id))]
    /\ WorkerIdle
    /\ IngestIdle
    /\ AuthIdle
    /\ now = 0
    /\ \E status \in {"pending", "connected", "error"} :
          cred = [status |-> status, provider |-> "ms365", error_message |-> ""]
    /\ tokens = [access |-> Authorized, refresh |-> "rt", expires_at |-> At(7)]
    /\ cache = NoCache
    /\ issued = 0
    /\ cpc = [c \in Callers |-> "idle"]
    /\ call = [c \in Callers |-> NoCall]
    /\ reply = [c \in Callers |-> NoReply]
    /\ result = [c \in Callers |-> NoResult]

ProcessStep(p) ==
    \/ SelectPending(p)
    \/ MarkProcessing(p)
    \/ NormalizeDeleted(p)
    \/ RequestToken(p)
    \/ RequestTokenFails(p)
    \/ GraphGet(p)
    \/ GraphGetFails(p)
    \/ NextCycle(p)

NextProcess == \E p \in Pollers : ProcessStep(p)

SpecProcess == InitProcess /\ [][NextProcess]_vars

\* one poller over events of which some carry another provider's tag
InitSkip ==
    /\ \E providers \in [EventIds -> {"ms365", "gmail"}] :
           events = [id \in EventIds |->
                        [NewEvent("c1", "sub-1", "s1", "created", ResourceOf(id))
                            EXCEPT !.provider = providers[id]]]
    /\ WorkerIdle
    /\ IngestIdle
    /\ TokenIdle

NextSkip == PollerStep(1) \/ SkipUnsupported(1)

SpecSkip == InitSkip /\ [][NextSkip]_vars

NextSeq == PollerStep(1)

SpecSeq == InitWorker /\ [][NextSeq]_vars

\* run_worker_loop: while True, one cycle after another
SpecSeqFair == SpecSeq /\ WF_vars(NextSeq)

SpecWorkerFair == SpecWorker /\ \A p \in Pollers : WF_vars(PollerStep(p))

InitIngest ==
    /\ events = <<>>
    /\ WorkerIdle
    /\ IngestIdle
    /\ TokenIdle

HandlerStep(h) ==
    \/ ReceiveValidation(h)
    \/ ReceiveNotifications(h)
    \/ ReceiveNoConnection(h)
    \/ LookupSubscription(h)
    \/ InsertEvent(h)
    \/ InsertDuplicate(h)
    \/ InsertRaises(h)
    \/ UpdateSubscription(h)
    \/ DeadlockDetected(h)
    \/ Commit(h)
    \/ Respond(h)

NextIngest == \E h \in Handlers : HandlerStep(h)

SpecIngest == InitIngest /\ [][NextIngest]_vars

InitSubs ==
    /\ events = <<>>
    /\ WorkerIdle
    /\ IngestIdle
    /\ TokenIdle

RequesterStep(r) ==
    \/ CreateUpstream(r)
    \/ CreateUpstreamFails(r)
    \/ CreateStore(r)
    \/ CreateStoreRaises(r)
    \/ RenewLoad(r)
    \/ RenewUpstream(r)
    \/ RenewUpstreamFails(r)
    \/ RenewUpdate(r)
    \/ RenewUpdateRaises(r)
    \/ DeleteLoad(r)
    \/ DeleteNoConnection(r)
    \/ DeleteUpstream(r)
    \/ DeleteUpstreamFails(r)
    \/ DeleteUpstreamLost(r)
    \/ DeleteLocal(r)
    \/ DeleteLocalRaises(r)
    \/ SubReturns(r)

NextSubs == \E r \in Requesters : RequesterStep(r)

SpecSubs == InitSubs /\ [][NextSubs]_vars

AdminIdle ==
    /\ events = <<>>
    /\ WorkerIdle
    /\ IngestIdle
    /\ AuthIdle
    /\ now = 0
    /\ cache = NoCache
    /\ issued = 0
    /\ cpc = [c \in Callers |-> "idle"]
    /\ call = [c \in Callers |-> NoCall]
    /\ reply = [c \in Callers |-> NoReply]
    /\ result = [c \in Callers |-> NoResult]

\* no credential yet
InitCreate ==
    /\ AdminIdle
    /\ tokens = NoTokens
    /\ cred = NoCredential

NextCreate ==
    \/ CreateCredential
    \/ DeleteCredentialRow
    \/ AdminReturns

SpecCreate == InitCreate /\ [][NextCreate]_vars

\* a credential as create_credential stored it, in any status the OAuth
\* flow gives it
InitUpdate ==
    /\ AdminIdle
    /\ \E status \in {"pending", "connected", "error"} :
          LET row == NewCredential([provider |-> "ms365", tenant_id |-> NULL,
                                    authorization_url |-> NULL, token_url |-> NULL,
                                    scopes |-> NULL])
          IN  \/ /\ status # "connected"
                 /\ cred = [row EXCEPT !.status = status]
                 /\ tokens = NoTokens
              \* the callback stored the account and the token pair; a later
              \* update or a failed refresh changes the status and keeps them
              \/ /\ cred = [row EXCEPT !.status = status,
                                       !.connected_email = Given("user@example.com")]
                 /\ tokens = ConnectedTokens

NextUpdate ==
    \/ UpdateCredentialRow
    \/ DeleteCredentialRow
    \/ AdminReturns

SpecUpdate == InitUpdate /\ [][NextUpdate]_vars

\* no challenge yet, no call in flight
InitOtp == InitCreate

NextOtp ==
    \/ StoreOtp
    \/ \E v \in Validators :
          \/ ValidateSelect(v)
          \/ ValidateUpdate(v)
          \/ ValidateReturns(v)
    \/ OtpTick

SpecOtp == InitOtp /\ [][NextOtp]_vars

InitToken ==
    /\ events = <<>>
    /\ WorkerIdle
    /\ IngestIdle
    /\ TokenIdle

CallerStep(c) ==
    \/ GetTokenCached(c)
    \/ GetTokenCacheRaises(c)
    \/ GetTokenRequest(c)
    \/ VendLookup(c)
    \/ RefreshStored(c)
    \/ RefreshRejected(c)
    \/ ClientReceives(c)
    \/ CallReturns(c)

NextToken ==
    \/ (OAuthCallbackStored /\ UNCHANGED <<events, workerVars, ingestVars, authVars, subsVars, adminVars, otpVars, procVars>>)
    \/ (DeleteCredential /\ UNCHANGED <<events, workerVars, ingestVars, authVars, subsVars, adminVars, otpVars, procVars>>)
    \/ (Tick /\ UNCHANGED <<events, workerVars, ingestVars, authVars, subsVars, adminVars, otpVars, procVars>>)
    \/ \E c \in Callers : CallerStep(c) /\ UNCHANGED <<events, workerVars, ingestVars, authVars, subsVars, adminVars, otpVars, procVars>>

SpecToken == InitToken /\ [][NextToken]_vars

\* two callers of a connected credential whose stored token is about to
\* expire; the refresh is taken in its two steps
InitRefresh ==
    /\ events = <<>>
    /\ WorkerIdle
    /\ IngestIdle
    /\ AuthIdle
    /\ now = 0
    /\ cred = [status |-> "connected", provider |-> "ms365", error_message |-> ""]
    /\ tokens = [access |-> Authorized, refresh |-> "rt", expires_at |-> At(2)]
    /\ cache = NoCache
    /\ issued = 0
    /\ cpc = [c \in Callers |-> "idle"]
    /\ call = [c \in Callers |-> NoCall]
    /\ reply = [c \in Callers |-> NoReply]
    /\ result = [c \in Callers |-> NoResult]

RefreshingCallerStep(c) ==
    \/ GetTokenCached(c)
    \/ GetTokenCacheRaises(c)
    \/ GetTokenRequest(c)
    \/ VendLookup(c)
    \/ RefreshCall(c)
    \/ RefreshUpdate(c)
    \/ RefreshRejected(c)
    \/ ClientReceives(c)
    \/ CallReturns(c)

NextRefresh ==
    \/ (DeleteCredential /\ UNCHANGED <<events, workerVars, ingestVars, authVars, subsVars, adminVars, otpVars, procVars>>)
    \/ (Tick /\ UNCHANGED <<events, workerVars, ingestVars, authVars, subsVars, adminVars, otpVars, procVars>>)
    \/ \E c \in Callers : RefreshingCallerStep(c) /\ UNCHANGED <<events, workerVars, ingestVars, authVars, subsVars, adminVars, otpVars, procVars>>

SpecRefresh == InitRefresh /\ [][NextRefresh]_vars

\* one caller of get_credential_token, while the credential is authorized,
\* reconfigured and deleted and the cache is cleared
NextCache ==
    \/ (OAuthCallbackStored /\ UNCHANGED <<events, workerVars, ingestVars, authVars, subsVars, adminVars, otpVars, procVars>>)
    \/ (UpdateCredential /\ UNCHANGED <<events, workerVars, ingestVars, callerVars, subsVars, adminVars, otpVars, procVars>>)
    \/ (DeleteCredential /\ UNCHANGED <<events, workerVars, ingestVars, authVars, subsVars, adminVars, otpVars, procVars>>)
    \/ (ClearTokenCache /\ UNCHANGED <<events, workerVars, ingestVars, authVars, subsVars, adminVars, otpVars, procVars>>)
    \/ (Tick /\ UNCHANGED <<events, workerVars, ingestVars, authVars, subsVars, adminVars, otpVars, procVars>>)
    \/ (CallerStep(1) /\ UNCHANGED <<events, workerVars, ingestVars, authVars, subsVars, adminVars, otpVars, procVars>>)

SpecCache == InitToken /\ [][NextCache]_vars

InitAuth ==
    /\ events = <<>>
    /\ WorkerIdle
    /\ IngestIdle
    /\ now = 0
    /\ \E provider \in Providers :
          cred = [status |-> "pending", provider |-> provider, error_message |-> ""]
    /\ tokens = NoTokens
    /\ cache = NoCache
    /\ issued = 0
    /\ cpc = [c \in Callers |-> "idle"]
    /\ call = [c \in Callers |-> NoCall]
    /\ reply = [c \in Callers |-> NoReply]
    /\ result = [c \in Callers |-> NoResult]
    /\ AuthIdle

CallbackStep ==
    \/ CallbackDeclined
    \/ CallbackValidate
    \/ CallbackLoad
    \/ CallbackExchange
    \/ CallbackUserInfo
    \/ CallbackPersist
    \/ CallbackPersistRaises
    \/ CallbackMarkError
    \/ CallbackMarkErrorRaises
    \/ CallbackReturns

FlowStep ==
    \/ AuthorizeOAuth
    \/ TenantCallbackValidate
    \/ UpdateCredential
    \/ TickTo
    \/ CallbackStep

NextAuth ==
    \/ (FlowStep /\ UNCHANGED <<events, workerVars, ingestVars, callerVars, subsVars, adminVars, otpVars, procVars>>)
    \/ (DeleteCredential /\ UNCHANGED <<events, workerVars, ingestVars, authVars, subsVars, adminVars, otpVars, procVars>>)
    \/ (CallerStep(1) /\ UNCHANGED <<events, workerVars, ingestVars, authVars, subsVars, adminVars, otpVars, procVars>>)

SpecAuth == InitAuth /\ [][NextAuth]_vars

====
